---- MODULE Spec2Model ----
(***************************************************************************)
(* Model of the craftr build core:                                         *)
(*   - lib/core/actions.py: Action (skip, is_executed, execute,            *)
(*     execute_with) run by concurrent worker threads, ActionProgress      *)
(*     (is_aborted, abort, on_abort, system), ActionData.new and           *)
(*     System.is_skippable;                                                *)
(*   - src/craftr/api/__init__.py: Target.add_dependency,                  *)
(*     Target.transitive_dependencies, Target.get_prop, BuildSet.partite,  *)
(*     create_operator and join_file_sets;                                 *)
(*   - src/backends/ninja/__init__.py: make_rule_name and prepare_build;   *)
(*   - craftr/__main__.py: BuildCommand.execute and the cache record.      *)
(* Every statement of a method that reads or writes shared state is one    *)
(* step of the calling thread, so that the interleavings the code allows   *)
(* (it takes no lock around execute / skip) are the model's.               *)
(***************************************************************************)
EXTENDS Integers, Sequences, FiniteSets, TLC

VARIABLES
  \* ---- Action objects (actions.py:30-43)
  progress,      \* Action.progress: NoProgress, or the id of an ActionProgress
  skipped,       \* Action.skipped
  \* ---- ActionProgress objects created by skip() / for execute_with()
  nprogress,     \* number of ActionProgress objects created so far
  executed,      \* ActionProgress.executed, per object
  code,          \* ActionProgress.code, per object: None or <<int>>
  buffer,        \* ActionProgress.buffer, per object: kinds of content written
  \* ---- worker threads calling skip / execute / execute_with
  pc,            \* position of each worker in the method it is running
  self,          \* the Action the worker's call is on
  via,           \* the method the worker called
  idx,           \* index of the 'for other in self.deps' loop
  lprogress,     \* execute's local 'progress'
  lcode,         \* execute's local 'code'
  outcome,       \* how the payload's execute finished
  err,           \* the error the call raised, "none" if none
  preterm,       \* whether the Action was Settled when the call was made
  \* ---- one ActionProgress under abort / on_abort / system (actions.py:212-318)
  aborted,         \* ActionProgress.aborted
  abort_callbacks, \* ActionProgress.abort_callbacks: the kinds of the callbacks
  invoked,         \* how often each registered callback has been called
  do_buffering,    \* ActionProgress.do_buffering
  lock,            \* who holds the object's lock (ts.method / ts.condition)
  streamed,        \* lines of child output copied into ActionProgress.buffer
  proc,            \* the child process of system(): "none", "live", "exited"
  proc_out,        \* lines the child has written that system() has not read
  produced,        \* lines the child has written so far
  terminate_requested, \* proc.terminate() has been called
  system_pc,       \* position of the worker inside system()
  abort_pc,        \* position of each thread calling abort()
  cursor,          \* abort's loop index into abort_callbacks
  live_at_call,    \* whether the child was live when abort() was called
  registered_when_aborted, \* history: number of callbacks registered when the flag was set
  poll_pc,         \* position of the thread polling is_aborted()
  \* ---- Targets and their dependency edges (api/__init__.py:153-250)
  dependencies,  \* Target._dependencies, per target: the Dependency edges in order
  add_error,     \* the error the last add_dependency raised, "none" if none
  add_args,      \* history: <<arguments>> of the last add_dependency call, else <<>>
  td,            \* <<result>> of the last transitive_dependencies() call, else <<>>
  \* ---- the list property "defines" of each Target (api/__init__.py:169-170)
  public_properties, \* Target.public_properties["defines"]: None or <<list>>
  properties,        \* Target.properties["defines"]: None or <<list>>
  got,           \* <<result>> of the last get_prop() call, else <<>>
  \* ---- the Session's file sets, build sets and operators (api/__init__.py:85-86, 263-368)
  file_sets,     \* Session._file_sets: the files of each FileSet, by id
  bsets,         \* the BuildSet objects created so far, by id
  live,          \* Session._build_sets: ids of the registered build sets
  op_sets,       \* the build sets each Operator owns, by operator id
  current_build_set, \* Target.current_build_set of the current target, 0 if None
  part,          \* history: <<record>> of the last partite() consumed, else <<>>
  joined,        \* <<result>> of the last join_file_sets() call, else <<>>
  \* ---- the Actions ActionData.new adds to one target (actions.py:126-153)
  target_actions, \* the target's actions in creation order: the deps of each
  new_result,    \* <<record>> of the last ActionData.new call, else <<>>
  \* ---- one System payload and the files it declares (actions.py:362-398)
  payload,       \* <<the System object>>: its input_files and output_files; <<>> before
  mtime,         \* the file system: the mtime of each file, Missing if there is none
  skippable,     \* <<result>> of the last is_skippable() on the files as they are, else <<>>
  touched,       \* history: <<the one touch made since a call of is_skippable()>>, else <<>>
  \* ---- the graph handed to the ninja backend and what it wrote (backends/ninja)
  graph,         \* the nodes of the graph, by the key the graph knows them under
  documents,     \* the build.ninja documents written so far, one per export
  exported,      \* history: per document, the keys of the nodes in the order written
  \* ---- one build directory and the craftr commands run in it (__main__.py)
  cachefile,     \* the file .craftrcache: missing, unparsable, or the JSON object in it
  imtime,        \* the mtime of each dependent file of the modules, Missing if none
  ran            \* history: <<record>> of the last command, with the files as they are; else <<>>

execVars == <<progress, skipped, nprogress, executed, code, buffer,
              pc, self, via, idx, lprogress, lcode, outcome, err, preterm>>

progressVars == <<aborted, abort_callbacks, invoked, do_buffering, lock, streamed,
                  proc, proc_out, produced, terminate_requested, system_pc,
                  abort_pc, cursor, live_at_call, registered_when_aborted,
                  poll_pc>>

depsVars == <<dependencies, add_error, add_args, td>>

propVars == <<public_properties, properties, got>>

buildVars == <<file_sets, bsets, live, op_sets, current_build_set, part, joined>>

newVars == <<target_actions, new_result>>

skipVars == <<payload, mtime, skippable, touched>>

ninjaVars == <<graph, documents, exported>>

mainVars == <<cachefile, imtime, ran>>

vars == <<execVars, progressVars, depsVars, propVars, buildVars, newVars, skipVars, ninjaVars, mainVars>>

(***************************************************************************)
(* Bounds                                                                  *)
(***************************************************************************)
NumThreads == 2       \* workers calling skip / execute / execute_with
MaxProgress == 2      \* ActionProgress objects created in one run
NumAborters == 2      \* threads calling abort() on the one ActionProgress
MaxCallbacks == 2     \* callbacks registered by callers of on_abort
MaxLines == 2         \* lines of output the child process writes
NumTargets == 4       \* Targets of the session
MaxEdges == 3         \* Dependency edges added in one run
NumPropTargets == 3   \* Targets the scripts that set properties work on
MaxPropEdges == 2     \* Dependency edges those scripts add
MaxSets == 2          \* property containers those scripts set
MaxFiles == 2         \* files in one file group
MaxDeclared == 1      \* build sets a script declares with build_set()
MaxBuildSets == 3     \* BuildSet objects created in one run
MaxFileSets == 10     \* FileSet objects created in one run
MaxOperators == 2     \* Operators created in one run
MaxNew == 2           \* Actions ActionData.new adds to the target
MaxDeps == 2          \* elements of a deps list passed to ActionData.new
MaxMtime == 3         \* latest ordinary modification time of a file
MaxNodes == 2         \* nodes of the exported graph
MaxExports == 2       \* times the graph is exported

Threads == 1..NumThreads
Aborters == 1..NumAborters
Targets == 1..NumTargets
ProgressIds == 1..MaxProgress
PropTargets == 1..NumPropTargets

(***************************************************************************)
(* Values                                                                  *)
(***************************************************************************)
\* Python's None as an optional value: None is <<>>, an integer n is <<n>>.
None == <<>>
Int_(n) == <<n>>
NoProgress == 0          \* Action.progress = None
FaultCode == 127

\* The action graph the workers run: a2 depends on a1, a3 is unrelated.
Actions == {"a1", "a2", "a3"}
deps == [a \in Actions |-> IF a = "a2" THEN <<"a1">> ELSE <<>>]
\* Actions generated from a console operator (java.run sets console=True).
console == [a \in Actions |-> a \in {"a1", "a3"}]

\* The ways an ActionData.execute can finish.
Outcomes ==
  { [kind |-> "return", val |-> None],        \* e.g. DownloadFile.execute
    [kind |-> "return", val |-> Int_(1)],
    [kind |-> "raise", val |-> None],         \* an Exception
    [kind |-> "interrupt", val |-> None],     \* KeyboardInterrupt
    [kind |-> "exit", val |-> None],          \* SystemExit()
    [kind |-> "exit", val |-> Int_(0)],       \* SystemExit(0)
    [kind |-> "exit", val |-> Int_(1)] }      \* SystemExit(1)
NoOutcome == [kind |-> "none", val |-> None]

(***************************************************************************)
(* Action.is_executed (actions.py:73-79)                                   *)
(***************************************************************************)
is_executed(a) ==
  IF skipped[a] THEN TRUE
  ELSE IF progress[a] = NoProgress THEN FALSE
  ELSE executed[progress[a]]

ExecInit ==
  /\ progress = [a \in Actions |-> NoProgress]
  /\ skipped = [a \in Actions |-> FALSE]
  /\ nprogress = 0
  /\ executed = [p \in ProgressIds |-> FALSE]
  /\ code = [p \in ProgressIds |-> None]
  /\ buffer = [p \in ProgressIds |-> {}]
  /\ pc = [t \in Threads |-> "idle"]
  /\ self = [t \in Threads |-> "a1"]
  /\ via = [t \in Threads |-> "none"]
  /\ idx = [t \in Threads |-> 1]
  /\ lprogress = [t \in Threads |-> NoProgress]
  /\ lcode = [t \in Threads |-> None]
  /\ outcome = [t \in Threads |-> NoOutcome]
  /\ err = [t \in Threads |-> "none"]
  /\ preterm = [t \in Threads |-> FALSE]

\* The Action is executed or skipped and no call on it is still in flight.
Settled(a) ==
  /\ is_executed(a)
  /\ \A u \in Threads : pc[u] = "idle" \/ self[u] # a

\* A worker makes a call on an Action.
Call(t, a, method, first) ==
  /\ pc[t] = "idle"
  /\ pc' = [pc EXCEPT ![t] = first]
  /\ self' = [self EXCEPT ![t] = a]
  /\ via' = [via EXCEPT ![t] = method]
  /\ idx' = [idx EXCEPT ![t] = 1]
  /\ preterm' = [preterm EXCEPT ![t] = Settled(a)]
  /\ UNCHANGED <<progress, skipped, nprogress, executed, code, buffer,
                 lprogress, lcode, outcome, err,
                 progressVars, depsVars, propVars, buildVars, newVars, skipVars, ninjaVars, mainVars>>

Raise(t, e) ==
  /\ pc' = [pc EXCEPT ![t] = "raised"]
  /\ err' = [err EXCEPT ![t] = e]

(***************************************************************************)
(* Action.skip (actions.py:59-63): four statements, no guard.              *)
(***************************************************************************)
CallSkip(t, a) == Call(t, a, "skip", "skip_L60")

\* self.progress = ActionProgress()
skip_L60(t) ==
  /\ pc[t] = "skip_L60"
  /\ nprogress < MaxProgress
  /\ nprogress' = nprogress + 1
  /\ progress' = [progress EXCEPT ![self[t]] = nprogress + 1]
  /\ pc' = [pc EXCEPT ![t] = "skip_L61"]
  /\ UNCHANGED <<skipped, executed, code, buffer, self, via, idx, lprogress,
                 lcode, outcome, err, preterm,
                 progressVars, depsVars, propVars, buildVars, newVars, skipVars, ninjaVars, mainVars>>

\* self.progress.executed = True
skip_L61(t) ==
  /\ pc[t] = "skip_L61"
  /\ executed' = [executed EXCEPT ![progress[self[t]]] = TRUE]
  /\ pc' = [pc EXCEPT ![t] = "skip_L62"]
  /\ UNCHANGED <<progress, skipped, nprogress, code, buffer, self, via, idx,
                 lprogress, lcode, outcome, err, preterm,
                 progressVars, depsVars, propVars, buildVars, newVars, skipVars, ninjaVars, mainVars>>

\* self.progress.code = 0
skip_L62(t) ==
  /\ pc[t] = "skip_L62"
  /\ code' = [code EXCEPT ![progress[self[t]]] = Int_(0)]
  /\ pc' = [pc EXCEPT ![t] = "skip_L63"]
  /\ UNCHANGED <<progress, skipped, nprogress, executed, buffer, self, via, idx,
                 lprogress, lcode, outcome, err, preterm,
                 progressVars, depsVars, propVars, buildVars, newVars, skipVars, ninjaVars, mainVars>>

\* self.skipped = True, and skip returns
skip_L63(t) ==
  /\ pc[t] = "skip_L63"
  /\ skipped' = [skipped EXCEPT ![self[t]] = TRUE]
  /\ pc' = [pc EXCEPT ![t] = "returned"]
  /\ UNCHANGED <<progress, nprogress, executed, code, buffer, self, via, idx,
                 lprogress, lcode, outcome, err, preterm,
                 progressVars, depsVars, propVars, buildVars, newVars, skipVars, ninjaVars, mainVars>>

(***************************************************************************)
(* Action.execute_with (actions.py:117-121)                                *)
(***************************************************************************)
CallExecuteWith(t, a) == Call(t, a, "execute_with", "execute_with_L118")

\* if self.progress is not None: raise RuntimeError
execute_with_L118(t) ==
  /\ pc[t] = "execute_with_L118"
  /\ IF progress[self[t]] # NoProgress
       THEN Raise(t, "progress_already_set")
       ELSE /\ pc' = [pc EXCEPT ![t] = "execute_with_L120"]
            /\ UNCHANGED err
  /\ UNCHANGED <<progress, skipped, nprogress, executed, code, buffer, self, via,
                 idx, lprogress, lcode, outcome, preterm,
                 progressVars, depsVars, propVars, buildVars, newVars, skipVars, ninjaVars, mainVars>>

\* self.progress = progress (a new ActionProgress of the caller); then execute()
execute_with_L120(t) ==
  /\ pc[t] = "execute_with_L120"
  /\ nprogress < MaxProgress
  /\ nprogress' = nprogress + 1
  /\ progress' = [progress EXCEPT ![self[t]] = nprogress + 1]
  /\ pc' = [pc EXCEPT ![t] = "execute_L88"]
  /\ UNCHANGED <<skipped, executed, code, buffer, self, via, idx, lprogress,
                 lcode, outcome, err, preterm,
                 progressVars, depsVars, propVars, buildVars, newVars, skipVars, ninjaVars, mainVars>>

(***************************************************************************)
(* Action.execute (actions.py:81-115)                                      *)
(***************************************************************************)
CallExecute(t, a) == Call(t, a, "execute", "execute_L88")

\* for other in self.deps: if not other.is_executed(): raise RuntimeError
execute_L88(t) ==
  /\ pc[t] = "execute_L88"
  /\ IF idx[t] > Len(deps[self[t]])
       THEN /\ pc' = [pc EXCEPT ![t] = "execute_L93"]
            /\ UNCHANGED <<idx, err>>
       ELSE IF ~is_executed(deps[self[t]][idx[t]])
         THEN Raise(t, "dependent_not_executed") /\ UNCHANGED idx
         ELSE /\ idx' = [idx EXCEPT ![t] = idx[t] + 1]
              /\ UNCHANGED <<pc, err>>
  /\ UNCHANGED <<progress, skipped, nprogress, executed, code, buffer, self, via,
                 lprogress, lcode, outcome, preterm,
                 progressVars, depsVars, propVars, buildVars, newVars, skipVars, ninjaVars, mainVars>>

\* if self.progress is None: raise RuntimeError
execute_L93(t) ==
  /\ pc[t] = "execute_L93"
  /\ IF progress[self[t]] = NoProgress
       THEN Raise(t, "progress_not_set")
       ELSE /\ pc' = [pc EXCEPT ![t] = "execute_L95"]
            /\ UNCHANGED err
  /\ UNCHANGED <<progress, skipped, nprogress, executed, code, buffer, self, via,
                 idx, lprogress, lcode, outcome, preterm,
                 progressVars, depsVars, propVars, buildVars, newVars, skipVars, ninjaVars, mainVars>>

\* if self.progress.executed: raise RuntimeError
execute_L95(t) ==
  /\ pc[t] = "execute_L95"
  /\ IF executed[progress[self[t]]]
       THEN Raise(t, "already_executed")
       ELSE /\ pc' = [pc EXCEPT ![t] = "execute_L97"]
            /\ UNCHANGED err
  /\ UNCHANGED <<progress, skipped, nprogress, executed, code, buffer, self, via,
                 idx, lprogress, lcode, outcome, preterm,
                 progressVars, depsVars, propVars, buildVars, newVars, skipVars, ninjaVars, mainVars>>

\* progress = self.progress
execute_L97(t) ==
  /\ pc[t] = "execute_L97"
  /\ lprogress' = [lprogress EXCEPT ![t] = progress[self[t]]]
  /\ pc' = [pc EXCEPT ![t] = "execute_L98"]
  /\ UNCHANGED <<progress, skipped, nprogress, executed, code, buffer, self, via,
                 idx, lcode, outcome, err, preterm,
                 progressVars, depsVars, propVars, buildVars, newVars, skipVars, ninjaVars, mainVars>>

\* progress.executed = False
execute_L98(t) ==
  /\ pc[t] = "execute_L98"
  /\ executed' = [executed EXCEPT ![lprogress[t]] = FALSE]
  /\ pc' = [pc EXCEPT ![t] = "execute_L100"]
  /\ UNCHANGED <<progress, skipped, nprogress, code, buffer, self, via, idx,
                 lprogress, lcode, outcome, err, preterm,
                 progressVars, depsVars, propVars, buildVars, newVars, skipVars, ninjaVars, mainVars>>

\* code = self.data.execute(self, progress): the payload starts running
execute_L100(t) ==
  /\ pc[t] = "execute_L100"
  /\ pc' = [pc EXCEPT ![t] = "payload"]
  /\ UNCHANGED <<progress, skipped, nprogress, executed, code, buffer, self, via,
                 idx, lprogress, lcode, outcome, err, preterm,
                 progressVars, depsVars, propVars, buildVars, newVars, skipVars, ninjaVars, mainVars>>

\* The value execute's handlers (lines 101-108) leave in 'code'.
HandledCode(o) ==
  IF o.kind = "exit" THEN o.val                       \* except SystemExit
  ELSE IF o.kind \in {"raise", "interrupt"} THEN Int_(FaultCode) \* BaseException
  ELSE IF o.val = None THEN Int_(0)                   \* else: None -> 0
  ELSE o.val

\* Whether the handler prints the traceback to the progress buffer (line 104).
HandlerPrints(o) == o.kind \in {"raise", "interrupt"}

\* Lines 101-115: the payload finishes with outcome o, the matching handler
\* runs, then the finally block records the result, and execute returns code.
execute_L101(t, o) ==
  /\ pc[t] = "payload"
  /\ outcome' = [outcome EXCEPT ![t] = o]
  /\ lcode' = [lcode EXCEPT ![t] = HandledCode(o)]
  /\ buffer' = IF HandlerPrints(o)
                 THEN [buffer EXCEPT ![lprogress[t]] = @ \cup {"traceback"}]
                 ELSE buffer
  /\ code' = [code EXCEPT ![lprogress[t]] = HandledCode(o)]
  /\ executed' = [executed EXCEPT ![lprogress[t]] = TRUE]
  /\ lprogress' = [lprogress EXCEPT ![t] = NoProgress]
  /\ pc' = [pc EXCEPT ![t] = "returned"]
  /\ UNCHANGED <<progress, skipped, nprogress, self, via, idx, err, preterm,
                 progressVars, depsVars, propVars, buildVars, newVars, skipVars, ninjaVars, mainVars>>

\* The caller has its result (a value or an error) and is free for a new call.
Done(t) ==
  /\ pc[t] \in {"returned", "raised"}
  /\ pc' = [pc EXCEPT ![t] = "idle"]
  /\ self' = [self EXCEPT ![t] = "a1"]
  /\ via' = [via EXCEPT ![t] = "none"]
  /\ idx' = [idx EXCEPT ![t] = 1]
  /\ lprogress' = [lprogress EXCEPT ![t] = NoProgress]
  /\ lcode' = [lcode EXCEPT ![t] = None]
  /\ outcome' = [outcome EXCEPT ![t] = NoOutcome]
  /\ err' = [err EXCEPT ![t] = "none"]
  /\ preterm' = [preterm EXCEPT ![t] = FALSE]
  /\ UNCHANGED <<progress, skipped, nprogress, executed, code, buffer,
                 progressVars, depsVars, propVars, buildVars, newVars, skipVars, ninjaVars, mainVars>>

ExecNext ==
  \E t \in Threads :
    \/ \E a \in Actions : CallSkip(t, a)
    \/ \E a \in Actions : CallExecuteWith(t, a)
    \/ \E a \in Actions : CallExecute(t, a)
    \/ skip_L60(t)
    \/ skip_L61(t)
    \/ skip_L62(t)
    \/ skip_L63(t)
    \/ execute_with_L118(t)
    \/ execute_with_L120(t)
    \/ execute_L88(t)
    \/ execute_L93(t)
    \/ execute_L95(t)
    \/ execute_L97(t)
    \/ execute_L98(t)
    \/ execute_L100(t)
    \/ \E o \in Outcomes : execute_L101(t, o)
    \/ Done(t)

(***************************************************************************)
(* ActionProgress: abort, on_abort, system (actions.py:212-318).           *)
(* ts.method runs the method holding the object's lock; ts.condition(self) *)
(* is that same lock.  The lock is free or held by system's streaming loop *)
(* or by an abort() in progress.                                           *)
(***************************************************************************)
\* The callbacks callers register: one that returns, one that raises.
CallbackKinds == {"plain", "raising"}

\* ActionProgress.__init__ (actions.py:218-225), before system() is called.
ProgressObjectInit(buffering) ==
  /\ aborted = FALSE
  /\ abort_callbacks = <<>>
  /\ invoked = <<>>
  /\ do_buffering = buffering
  /\ lock = "free"
  /\ streamed = 0
  /\ proc = "none"
  /\ proc_out = 0
  /\ produced = 0
  /\ terminate_requested = FALSE
  /\ system_pc = "idle"
  /\ abort_pc = [t \in Aborters |-> "idle"]
  /\ cursor = [t \in Aborters |-> 1]
  /\ live_at_call = [t \in Aborters |-> FALSE]
  /\ registered_when_aborted = 0
  /\ poll_pc = "idle"

\* The lock of a ts.object, as the locking of section 4.6 describes it: a
\* thread enters a ts.method or a ts.condition block only while no other
\* thread is inside one, and leaves the lock free when it leaves.
ts_acquire(who) == lock = "free" /\ lock' = who
ts_release == lock' = "free"
\* A ts.method that runs to its end in one step: it needs the lock free.
ts_synchronized == lock = "free"

\* ActionProgress.on_abort (actions.py:241-243), under the lock.
Register(kind) ==
  /\ ts_synchronized
  /\ abort_callbacks' = Append(abort_callbacks, kind)
  /\ invoked' = Append(invoked, 0)

\* A caller registers a callback of its own.
on_abort(kind) ==
  /\ Len(abort_callbacks) < MaxCallbacks
  /\ Register(kind)
  /\ UNCHANGED <<aborted, do_buffering, lock, streamed, proc, proc_out, produced,
                 terminate_requested, system_pc, abort_pc, cursor, live_at_call,
                 registered_when_aborted,
                 poll_pc, execVars, depsVars, propVars, buildVars, newVars, skipVars, ninjaVars, mainVars>>

\* A thread calls abort().
CallAbort(t) ==
  /\ abort_pc[t] = "idle"
  /\ abort_pc' = [abort_pc EXCEPT ![t] = "abort_L233"]
  /\ live_at_call' = [live_at_call EXCEPT ![t] = (proc = "live")]
  /\ UNCHANGED <<aborted, abort_callbacks, invoked, do_buffering, lock, streamed,
                 proc, proc_out, produced, terminate_requested, system_pc, cursor,
                 registered_when_aborted,
                 poll_pc, execVars, depsVars, propVars, buildVars, newVars, skipVars, ninjaVars, mainVars>>

\* abort without its 'if not self.aborted' guard.
abort_L233_unguarded(t) ==
  /\ abort_pc[t] = "abort_L233"
  /\ ts_acquire("abort")
  /\ aborted' = TRUE
  /\ registered_when_aborted' = IF aborted THEN registered_when_aborted
                                 ELSE Len(abort_callbacks)
  /\ cursor' = [cursor EXCEPT ![t] = 1]
  /\ abort_pc' = [abort_pc EXCEPT ![t] = "abort_L235"]
  /\ UNCHANGED <<abort_callbacks, invoked, do_buffering, streamed, proc, proc_out,
                 produced, terminate_requested, system_pc, live_at_call,
                 poll_pc, execVars, depsVars, propVars, buildVars, newVars, skipVars, ninjaVars, mainVars>>

\* abort enters (takes the lock): if not self.aborted: self.aborted = True
abort_L233(t) ==
  /\ abort_pc[t] = "abort_L233"
  /\ IF aborted
       THEN /\ ts_synchronized
            /\ abort_pc' = [abort_pc EXCEPT ![t] = "returned"]
            /\ UNCHANGED <<aborted, lock, cursor, registered_when_aborted>>
       ELSE /\ ts_acquire("abort")
            /\ aborted' = TRUE
            /\ registered_when_aborted' = Len(abort_callbacks)
            /\ cursor' = [cursor EXCEPT ![t] = 1]
            /\ abort_pc' = [abort_pc EXCEPT ![t] = "abort_L235"]
  /\ UNCHANGED <<abort_callbacks, invoked, do_buffering, streamed, proc, proc_out,
                 produced, terminate_requested, system_pc, live_at_call,
                 poll_pc, execVars, depsVars, propVars, buildVars, newVars, skipVars, ninjaVars, mainVars>>

\* abort's loop without its try/except: a callback that raises ends the call.
abort_L235_stops_on_raise(t) ==
  /\ abort_pc[t] = "abort_L235"
  /\ IF cursor[t] <= Len(abort_callbacks)
       THEN /\ invoked' = [invoked EXCEPT ![cursor[t]] = @ + 1]
            /\ terminate_requested' =
                 (terminate_requested \/ abort_callbacks[cursor[t]] = "terminate")
            /\ IF abort_callbacks[cursor[t]] = "raising"
                 THEN /\ ts_release
                      /\ abort_pc' = [abort_pc EXCEPT ![t] = "returned"]
                      /\ UNCHANGED cursor
                 ELSE /\ cursor' = [cursor EXCEPT ![t] = @ + 1]
                      /\ UNCHANGED <<lock, abort_pc>>
       ELSE /\ ts_release
            /\ abort_pc' = [abort_pc EXCEPT ![t] = "returned"]
            /\ UNCHANGED <<invoked, terminate_requested, cursor>>
  /\ UNCHANGED <<aborted, abort_callbacks, do_buffering, streamed, proc, proc_out,
                 produced, system_pc, live_at_call, registered_when_aborted,
                 poll_pc, execVars, depsVars, propVars, buildVars, newVars, skipVars, ninjaVars, mainVars>>

\* for func in self.abort_callbacks: try: func() except: print_exc()
\* One callback per step; at the end of the list abort returns and unlocks.
abort_L235(t) ==
  /\ abort_pc[t] = "abort_L235"
  /\ IF cursor[t] <= Len(abort_callbacks)
       THEN /\ invoked' = [invoked EXCEPT ![cursor[t]] = @ + 1]
            /\ terminate_requested' =
                 (terminate_requested \/ abort_callbacks[cursor[t]] = "terminate")
            /\ cursor' = [cursor EXCEPT ![t] = @ + 1]
            /\ UNCHANGED <<lock, abort_pc>>
       ELSE /\ ts_release
            /\ abort_pc' = [abort_pc EXCEPT ![t] = "returned"]
            /\ UNCHANGED <<invoked, terminate_requested, cursor>>
  /\ UNCHANGED <<aborted, abort_callbacks, do_buffering, streamed, proc, proc_out,
                 produced, system_pc, live_at_call, registered_when_aborted,
                 poll_pc, execVars, depsVars, propVars, buildVars, newVars, skipVars, ninjaVars, mainVars>>

\* The caller of abort() has returned and may call again.
AbortDone(t) ==
  /\ abort_pc[t] = "returned"
  /\ abort_pc' = [abort_pc EXCEPT ![t] = "idle"]
  /\ cursor' = [cursor EXCEPT ![t] = 1]
  /\ live_at_call' = [live_at_call EXCEPT ![t] = FALSE]
  /\ UNCHANGED <<aborted, abort_callbacks, invoked, do_buffering, lock, streamed,
                 proc, proc_out, produced, terminate_requested, system_pc,
                 registered_when_aborted,
                 poll_pc, execVars, depsVars, propVars, buildVars, newVars, skipVars, ninjaVars, mainVars>>

\* system, lines 306-308: proc = subprocess.Popen(...)
system_L307 ==
  /\ system_pc = "idle"
  /\ proc = "none"
  /\ proc' = "live"
  /\ system_pc' = IF do_buffering THEN "system_L312" ELSE "system_L316"
  /\ UNCHANGED <<aborted, abort_callbacks, invoked, do_buffering, lock, streamed,
                 proc_out, produced, terminate_requested, abort_pc, cursor,
                 live_at_call, registered_when_aborted,
                 poll_pc, execVars, depsVars, propVars, buildVars, newVars, skipVars, ninjaVars, mainVars>>

\* with ts.condition(self): the streaming loop takes the lock
system_L312 ==
  /\ system_pc = "system_L312"
  /\ ts_acquire("system")
  /\ system_pc' = "system_L313"
  /\ UNCHANGED <<aborted, abort_callbacks, invoked, do_buffering, streamed, proc,
                 proc_out, produced, terminate_requested, abort_pc, cursor,
                 live_at_call, registered_when_aborted,
                 poll_pc, execVars, depsVars, propVars, buildVars, newVars, skipVars, ninjaVars, mainVars>>

\* for line in proc.stdout: self.buffer.write(line); at end of file the with
\* block ends and the lock is released.  Reading blocks while the child is
\* live and has written nothing new.
system_L313 ==
  /\ system_pc = "system_L313"
  /\ IF proc_out > 0
       THEN /\ proc_out' = proc_out - 1
            /\ streamed' = streamed + 1
            /\ UNCHANGED <<lock, system_pc>>
       ELSE /\ proc = "exited"
            /\ ts_release
            /\ system_pc' = "system_L316"
            /\ UNCHANGED <<proc_out, streamed>>
  /\ UNCHANGED <<aborted, abort_callbacks, invoked, do_buffering, proc, produced,
                 terminate_requested, abort_pc, cursor, live_at_call,
                 registered_when_aborted,
                 poll_pc, execVars, depsVars, propVars, buildVars, newVars, skipVars, ninjaVars, mainVars>>

\* self.on_abort(lambda: (proc.terminate(), print('TERMINATE!')))
system_L316 ==
  /\ system_pc = "system_L316"
  /\ Register("terminate")
  /\ system_pc' = "system_L317"
  /\ UNCHANGED <<aborted, do_buffering, lock, streamed, proc, proc_out, produced,
                 terminate_requested, abort_pc, cursor, live_at_call,
                 registered_when_aborted,
                 poll_pc, execVars, depsVars, propVars, buildVars, newVars, skipVars, ninjaVars, mainVars>>

\* proc.wait(); return proc.returncode
system_L317 ==
  /\ system_pc = "system_L317"
  /\ proc = "exited"
  /\ system_pc' = "returned"
  /\ UNCHANGED <<aborted, abort_callbacks, invoked, do_buffering, lock, streamed,
                 proc, proc_out, produced, terminate_requested, abort_pc, cursor,
                 live_at_call, registered_when_aborted,
                 poll_pc, execVars, depsVars, propVars, buildVars, newVars, skipVars, ninjaVars, mainVars>>

\* The child process writes a line to its output pipe (buffering only).
ChildWrites ==
  /\ proc = "live"
  /\ do_buffering
  /\ produced < MaxLines
  /\ produced' = produced + 1
  /\ proc_out' = proc_out + 1
  /\ UNCHANGED <<aborted, abort_callbacks, invoked, do_buffering, lock, streamed,
                 proc, terminate_requested, system_pc, abort_pc, cursor,
                 live_at_call, registered_when_aborted,
                 poll_pc, execVars, depsVars, propVars, buildVars, newVars, skipVars, ninjaVars, mainVars>>

\* The child process exits, on its own or because it was terminated.
ChildExits ==
  /\ proc = "live"
  /\ proc' = "exited"
  /\ UNCHANGED <<aborted, abort_callbacks, invoked, do_buffering, lock, streamed,
                 proc_out, produced, terminate_requested, system_pc, abort_pc,
                 cursor, live_at_call, registered_when_aborted,
                 poll_pc, execVars, depsVars, propVars, buildVars, newVars, skipVars, ninjaVars, mainVars>>

\* A thread polls the flag: it calls is_aborted() (actions.py:227-228).
CallIsAborted ==
  /\ poll_pc = "idle"
  /\ poll_pc' = "is_aborted_L227"
  /\ UNCHANGED <<aborted, abort_callbacks, invoked, do_buffering, lock, streamed,
                 proc, proc_out, produced, terminate_requested, system_pc,
                 abort_pc, cursor, live_at_call, registered_when_aborted,
                 execVars, depsVars, propVars, buildVars, newVars, skipVars, ninjaVars, mainVars>>

\* is_aborted is a ts.method: it enters under the lock, returns self.aborted
\* (actions.py:229) and leaves.  The caller is then free to poll again.
is_aborted ==
  /\ poll_pc = "is_aborted_L227"
  /\ ts_synchronized
  /\ poll_pc' = "idle"
  /\ UNCHANGED <<aborted, abort_callbacks, invoked, do_buffering, lock, streamed,
                 proc, proc_out, produced, terminate_requested, system_pc,
                 abort_pc, cursor, live_at_call, registered_when_aborted,
                 execVars, depsVars, propVars, buildVars, newVars, skipVars, ninjaVars, mainVars>>

ProgressNext ==
  \/ \E kind \in CallbackKinds : on_abort(kind)
  \/ \E t \in Aborters : CallAbort(t)
  \/ \E t \in Aborters : abort_L233(t)
  \/ \E t \in Aborters : abort_L235(t)
  \/ \E t \in Aborters : AbortDone(t)
  \/ system_L307
  \/ system_L312
  \/ system_L313
  \/ system_L316
  \/ system_L317
  \/ ChildWrites
  \/ ChildExits
  \/ CallIsAborted
  \/ is_aborted

(***************************************************************************)
(* Target.add_dependency and Target.transitive_dependencies                *)
(* (api/__init__.py:187-202, 237-250).  A Dependency object is the record  *)
(* of its owner, its target and its public flag: add_dependency admits one *)
(* edge per owner and target, so the record identifies the object.         *)
(***************************************************************************)
DepsInit ==
  /\ dependencies = [t \in Targets |-> <<>>]
  /\ add_error = "none"
  /\ add_args = <<>>
  /\ td = <<>>

NumEdges(g) ==
  LET count[t \in 0..NumTargets] ==
        IF t = 0 THEN 0 ELSE count[t - 1] + Len(g[t])
  IN count[NumTargets]

\* add_dependency with a duplicate test that also compares the public flag.
add_dependency_flag_sensitive(t, other, public) ==
  /\ NumEdges(dependencies) < MaxEdges
  /\ IF \E i \in 1..Len(dependencies[t]) :
          dependencies[t][i].target = other /\ dependencies[t][i].public = public
       THEN /\ add_error' = "already_exists"
            /\ UNCHANGED dependencies
       ELSE /\ add_error' = "none"
            /\ dependencies' =
                 [dependencies EXCEPT
                    ![t] = Append(@, [owner |-> t, target |-> other, public |-> public])]
  /\ add_args' = <<[owner |-> t, target |-> other, public |-> public]>>
  /\ td' = <<>>
  /\ UNCHANGED <<execVars, progressVars, propVars, buildVars, newVars, skipVars, ninjaVars, mainVars>>

\* The body of add_dependency(self=t, target=other, public), lines 197-202.
add_dependency_L197(t, other, public) ==
  /\ IF \E i \in 1..Len(dependencies[t]) : dependencies[t][i].target = other
       THEN /\ add_error' = "already_exists"
            /\ UNCHANGED dependencies
       ELSE /\ add_error' = "none"
            /\ dependencies' =
                 [dependencies EXCEPT
                    ![t] = Append(@, [owner |-> t, target |-> other, public |-> public])]
  /\ td' = <<>>

\* A caller adds a dependency to target t.
add_dependency(t, other, public) ==
  /\ NumEdges(dependencies) < MaxEdges
  /\ add_dependency_L197(t, other, public)
  /\ add_args' = <<[owner |-> t, target |-> other, public |-> public]>>
  /\ UNCHANGED <<execVars, progressVars, propVars, buildVars, newVars, skipVars, ninjaVars, mainVars>>

\* The generator recursion of worker() is as deep as the path it follows: a
\* path longer than the number of targets repeats a target, so the recursion
\* never ends and Python raises RecursionError.
RecursionLimit == NumTargets + 1

\* worker(target, private), lines 245-249, on the graph g: the edges it
\* yields in order, and whether the recursion overflows.
RECURSIVE worker(_, _, _, _)
worker(g, target, private, depth) ==
  IF depth > RecursionLimit
    THEN [edges |-> <<>>, overflow |-> TRUE]
    ELSE
      LET upto[i \in 0..Len(g[target])] ==
            IF i = 0 THEN [edges |-> <<>>, overflow |-> FALSE]
            ELSE IF upto[i - 1].overflow THEN upto[i - 1]
            ELSE
              LET dep == g[target][i]
                  own == IF dep.public \/ private THEN <<dep>> ELSE <<>>
                  sub == worker(g, dep.target, FALSE, depth + 1)
              IN [edges |-> upto[i - 1].edges \o own \o sub.edges,
                  overflow |-> sub.overflow]
      IN upto[Len(g[target])]

\* stream.unique (line 250): the items in order, without those seen before.
unique(s) ==
  LET upto[i \in 0..Len(s)] ==
        IF i = 0 THEN <<>>
        ELSE IF \E j \in 1..(i - 1) : s[j] = s[i] THEN upto[i - 1]
        ELSE Append(upto[i - 1], s[i])
  IN upto[Len(s)]

\* The result of target.transitive_dependencies(), consumed to its end.
transitive_dependencies_of(g, target) ==
  LET w == worker(g, target, TRUE, 1)
  IN [target |-> target, edges |-> unique(w.edges), overflow |-> w.overflow]

\* A caller consumes target.transitive_dependencies().
transitive_dependencies(target) ==
  /\ td' = <<transitive_dependencies_of(dependencies, target)>>
  /\ add_error' = "none"
  /\ add_args' = <<>>
  /\ UNCHANGED <<dependencies, execVars, progressVars, propVars, buildVars, newVars, skipVars, ninjaVars, mainVars>>

DepsNext ==
  \/ \E t \in Targets, other \in Targets, public \in BOOLEAN :
       add_dependency(t, other, public)
  \/ \E t \in Targets : transitive_dependencies(t)

(***************************************************************************)
(* Properties of a Target: properties(), depends() and Target.get_prop     *)
(* (api/__init__.py:204-235, 494-550), for one inherit-enabled list        *)
(* property.  A container holds None while the property is not set in it.  *)
(***************************************************************************)
Values == {"X", "Y"}

PropsInit ==
  /\ public_properties = [t \in Targets |-> None]
  /\ properties = [t \in Targets |-> None]
  /\ got = <<>>

\* Properties.is_set and Properties.__getitem__ of the list property: an
\* unset list property reads as its default, the empty list.
is_set(container, t) == container[t] # None
getitem(container, t) == IF is_set(container, t) THEN container[t][1] ELSE <<>>

\* The lists of a sequence of lists, one after the other.
concat(lists) ==
  LET upto[i \in 0..Len(lists)] ==
        IF i = 0 THEN <<>> ELSE upto[i - 1] \o lists[i]
  IN upto[Len(lists)]

\* proplib.List.inherit: the values concatenated in order, each value kept
\* at its first occurrence only.
List_inherit(values) == unique(concat(values))

NumSet ==
  Cardinality({t \in Targets : is_set(public_properties, t)})
    + Cardinality({t \in Targets : is_set(properties, t)})

\* properties({key: value}, _target=t) with key "defines", "@defines",
\* "defines+" or "@defines+", lines 526-536.
set_properties(t, value, public, append) ==
  LET dest == IF public THEN public_properties ELSE properties
      new == IF append /\ is_set(dest, t)
               THEN List_inherit(<<getitem(dest, t), value>>)
               ELSE value
  IN /\ t \in PropTargets
     /\ NumSet < MaxSets \/ is_set(dest, t)
     /\ IF public
          THEN /\ public_properties' = [public_properties EXCEPT ![t] = <<new>>]
               /\ UNCHANGED properties
          ELSE /\ properties' = [properties EXCEPT ![t] = <<new>>]
               /\ UNCHANGED public_properties
     /\ got' = <<>>
     /\ UNCHANGED <<execVars, progressVars, depsVars, buildVars, newVars, skipVars, ninjaVars, mainVars>>

\* depends(target=other, public) with t the current target, lines 539-550.
depends(t, other, public) ==
  /\ t \in PropTargets /\ other \in PropTargets
  /\ NumEdges(dependencies) < MaxPropEdges
  /\ add_dependency_L197(t, other, public)
  /\ got' = <<>>
  /\ UNCHANGED <<add_args, public_properties, properties, execVars, progressVars, buildVars, newVars, skipVars, ninjaVars, mainVars>>

\* iter_values yielding the private container before the public one.
iter_values_private_first(pub, priv, t, tdeps) ==
  <<getitem(priv, t), getitem(pub, t)>>
    \o [i \in 1..Len(tdeps) |-> getitem(pub, tdeps[i].target)]

\* iter_values reading the private container of the dependencies.
iter_values_private_of_deps(pub, priv, t, tdeps) ==
  <<getitem(pub, t), getitem(priv, t)>>
    \o [i \in 1..Len(tdeps) |-> getitem(priv, tdeps[i].target)]

\* iter_values() of get_prop (lines 220-224) with the targets of
\* self.transitive_dependencies() being those of the edges tdeps.
iter_values(pub, priv, t, tdeps) ==
  <<getitem(pub, t), getitem(priv, t)>>
    \o [i \in 1..Len(tdeps) |-> getitem(pub, tdeps[i].target)]

\* Target.get_prop(prop_name, inherit) on the graph g, lines 219-235 (the
\* default argument left at NotImplemented): the value returned, or the
\* RecursionError of transitive_dependencies.
get_prop_of(g, pub, priv, t, inherit) ==
  IF inherit
    THEN LET r == transitive_dependencies_of(g, t)
         IN IF r.overflow
              THEN [target |-> t, inherit |-> inherit, overflow |-> TRUE, value |-> <<>>]
              ELSE [target |-> t, inherit |-> inherit, overflow |-> FALSE,
                    value |-> List_inherit(iter_values(pub, priv, t, r.edges))]
    ELSE [target |-> t, inherit |-> inherit, overflow |-> FALSE,
          value |-> IF is_set(pub, t) THEN getitem(pub, t)
                    ELSE IF is_set(priv, t) THEN getitem(priv, t)
                    ELSE <<>>]

\* A caller reads the property of target t with inherit=True, as
\* Target.__getitem__ does for an inherit-enabled property (lines 179-181).
get_prop(t) ==
  /\ t \in PropTargets
  /\ got' = <<get_prop_of(dependencies, public_properties, properties, t, TRUE)>>
  /\ UNCHANGED <<public_properties, properties, execVars, progressVars, depsVars, buildVars, newVars, skipVars, ninjaVars, mainVars>>

PropsNext ==
  \/ \E t \in Targets, v \in Values, public \in BOOLEAN, append \in BOOLEAN :
       set_properties(t, <<v>>, public, append)
  \/ \E t \in Targets, other \in Targets, public \in BOOLEAN :
       depends(t, other, public)
  \/ \E t \in Targets : get_prop(t)

(***************************************************************************)
(* File sets, build sets and operators: file_set, join_file_sets,          *)
(* build_set, BuildSet.partite, BuildSet.fizzle and create_operator        *)
(* (api/__init__.py:307-368, 455-478, 576-620).  A FileSet and a BuildSet  *)
(* are objects: they are known by their id, the position at which they     *)
(* were created.  A path is a record of its name and whether it is         *)
(* absolute.                                                               *)
(***************************************************************************)
InputNames == {"in", "hdr"}
OutputNames == {"out"}
\* The order in which the group names are inserted into the dicts.
NameOrder == <<"in", "hdr", "out">>
FileNames == {"a", "b"}
RawPaths == [name : FileNames, abs : BOOLEAN]
\* The file lists scripts pass to file_set: no file named twice in a list.
RawLists ==
  {l \in UNION {[1..n -> RawPaths] : n \in 0..MaxFiles} :
     \A i, j \in 1..Len(l) : i # j => l[i].name # l[j].name}
\* The selections of groups the callers of partite pass: none (all groups),
\* the input and the output group, an input group alone, and a selection
\* naming the second input group.
OnSets == {{}, {"in", "out"}, {"in"}, {"hdr", "out"}}
NoOperator == 0
NoBuildSet == 0

BuildInit ==
  /\ file_sets = <<>>
  /\ bsets = <<>>
  /\ live = <<>>
  /\ op_sets = <<>>
  /\ current_build_set = NoBuildSet
  /\ part = <<>>
  /\ joined = <<>>

IndexOf(seq, x) == CHOOSE i \in 1..Len(seq) : seq[i] = x
Ordered(S) == SelectSeq(NameOrder, LAMBDA n : n \in S)
Members(seq) == {seq[i] : i \in 1..Len(seq)}
Without(seq, x) == SelectSeq(seq, LAMBDA y : y # x)

\* nr.fs.abs(x, directory): a relative path is made absolute.
abs(x) == [x EXCEPT !.abs = TRUE]

\* The files of the FileSet that file_set(files) creates (line 462).
file_set(files) == [i \in 1..Len(files) |-> abs(files[i])]

\* The FileSet id of the group n of BuildSet record bs.
group(bs, n) == IF n \in DOMAIN bs.inputs THEN bs.inputs[n] ELSE bs.outputs[n]
group_names(bs) == DOMAIN bs.inputs \cup DOMAIN bs.outputs

\* A script declares a build set: build_set({n: file_set(ins[n])},
\* {n: file_set(outs[n])}, variables), lines 455-465 and 576-584.
build_set(ins, outs, variables) ==
  LET names == Ordered(DOMAIN ins \cup DOMAIN outs)
      raw(n) == IF n \in DOMAIN ins THEN ins[n] ELSE outs[n]
      base == Len(file_sets)
      id == Len(bsets) + 1
      bs == [inputs |-> [n \in DOMAIN ins |-> base + IndexOf(names, n)],
             outputs |-> [n \in DOMAIN outs |-> base + IndexOf(names, n)],
             variables |-> variables,
             operator |-> NoOperator]
  IN /\ Len(bsets) < MaxDeclared
     /\ file_sets' = file_sets \o [k \in 1..Len(names) |-> file_set(raw(names[k]))]
     /\ bsets' = Append(bsets, bs)
     /\ live' = Append(live, id)
     /\ current_build_set' = id
     /\ part' = <<>>
     /\ joined' = <<>>
     /\ UNCHANGED <<op_sets, execVars, progressVars, depsVars, propVars, newVars, skipVars, ninjaVars, mainVars>>

\* The session as a call that raised e leaves it: unchanged, nothing yielded.
Raised(e) ==
  [error |-> e, file_sets |-> file_sets, bsets |-> bsets, live |-> live,
   op_sets |-> op_sets, current |-> current_build_set, results |-> <<>>]

\* The groups partite(*on_sets) partitions (lines 326-334).
partitioned(bs, on_sets) ==
  IF on_sets = {} THEN group_names(bs) ELSE group_names(bs) \cap on_sets

\* A fizzle that takes the build set off the session's list only.
fizzle_keeps_link(b) ==
  [bsets |-> bsets, op_sets |-> op_sets, live |-> Without(live, b)]

\* BuildSet.fizzle of build set b, lines 366-368: b is removed from
\* session._build_sets and (super().fizzle()) unlinked from its Operator.
fizzle(b) ==
  [bsets |-> [bsets EXCEPT ![b].operator = NoOperator],
   op_sets |-> IF bsets[b].operator # NoOperator
                 THEN [op_sets EXCEPT ![bsets[b].operator] = Without(@, b)]
                 ELSE op_sets,
   live |-> Without(live, b)]

\* A partition that gives every result the first file of the group.
partition_file_first(files, i) == file_set(<<files[1]>>)

\* file_set([self.inputs[name][i]], [self.inputs[name]]) of lines 355 and
\* 357: the files of the i-th result's FileSet for a partitioned group.
partition_file(files, i) == file_set(<<files[i]>>)

\* The partition of lines 348-362 of build set b over the groups pg with n
\* files each: the session after it.
partite_L348(b, pg, n, do_fizzle) ==
  LET src == bsets[b]
      K == Len(pg)
      base == Len(file_sets)
      nb == Len(bsets)
      single(j) == LET i == ((j - 1) \div K) + 1
                       k == ((j - 1) % K) + 1
                   IN partition_file(file_sets[group(src, pg[k])], i)
      newid(i, name) == base + (i - 1) * K + IndexOf(pg, name)
      result(i) ==
        [inputs |-> [name \in DOMAIN src.inputs |->
                       IF name \in Members(pg) THEN newid(i, name) ELSE src.inputs[name]],
         outputs |-> [name \in DOMAIN src.outputs |->
                        IF name \in Members(pg) THEN newid(i, name) ELSE src.outputs[name]],
         variables |-> src.variables,
         operator |-> NoOperator]
      after == IF do_fizzle THEN fizzle(b)
               ELSE [bsets |-> bsets, op_sets |-> op_sets, live |-> live]
  IN [error |-> "none",
      file_sets |-> file_sets \o [j \in 1..(n * K) |-> single(j)],
      bsets |-> after.bsets \o [i \in 1..n |-> result(i)],
      live |-> after.live \o [i \in 1..n |-> nb + i],
      op_sets |-> after.op_sets,
      current |-> IF n = 0 THEN current_build_set ELSE nb + n,
      results |-> [i \in 1..n |-> nb + i]]

\* partite without the test of lines 341-346: partitions over the smallest
\* of the selected groups.
partite_result_unchecked(b, on_sets, do_fizzle) ==
  LET src == bsets[b]
      on == partitioned(src, on_sets)
      partition_inputs == DOMAIN src.inputs \cap on
      partition_outputs == DOMAIN src.outputs \cap on
      counts == {Len(file_sets[group(src, x)]) : x \in on}
  IN IF partition_inputs = {} \/ partition_outputs = {}
       THEN Raised("no_inputs_or_outputs")
     ELSE IF do_fizzle /\ b \notin Members(live)
       THEN Raised("not_in_list")
     ELSE partite_L348(b, Ordered(on),
                       CHOOSE c \in counts : \A d \in counts : c <= d, do_fizzle)

\* BuildSet.partite(*on_sets, fizzle) of build set b consumed to its end,
\* lines 321-362: the error it raised and the session after it.
partite_result(b, on_sets, do_fizzle) ==
  LET src == bsets[b]
      on == partitioned(src, on_sets)
      partition_inputs == DOMAIN src.inputs \cap on
      partition_outputs == DOMAIN src.outputs \cap on
      counts == {Len(file_sets[group(src, x)]) : x \in on}
  IN IF partition_inputs = {} \/ partition_outputs = {}
       THEN Raised("no_inputs_or_outputs")
     ELSE IF Cardinality(counts) # 1
       THEN Raised("cardinality_must_match")
     ELSE IF do_fizzle /\ b \notin Members(live)
       THEN Raised("not_in_list")
     ELSE partite_L348(b, Ordered(on), CHOOSE c \in counts : TRUE, do_fizzle)

\* The record kept of a partite() call: its arguments, what the source was
\* before it, its error and the build sets it yielded.
PartRecord(b, on_sets, do_fizzle, r, owner) ==
  [source |-> b, on_sets |-> on_sets, fizzle |-> do_fizzle,
   was_live |-> b \in Members(live), operator_before |-> bsets[b].operator,
   nbefore |-> Len(bsets), error |-> r.error, results |-> r.results,
   owner |-> owner]

\* A script consumes b.partite(*on_sets, fizzle=fizzle).
partite(b, on_sets, do_fizzle) ==
  LET r == partite_result(b, on_sets, do_fizzle)
  IN /\ Len(r.bsets) <= MaxBuildSets
     /\ Len(r.file_sets) <= MaxFileSets
     /\ file_sets' = r.file_sets
     /\ bsets' = r.bsets
     /\ live' = r.live
     /\ op_sets' = r.op_sets
     /\ current_build_set' = r.current
     /\ part' = <<PartRecord(b, on_sets, do_fizzle, r, NoOperator)>>
     /\ joined' = <<>>
     /\ UNCHANGED <<execVars, progressVars, depsVars, propVars, newVars, skipVars, ninjaVars, mainVars>>

\* Operator.add_build_set(b) for each b of the sequence added, on the build
\* sets bs: every b is linked to operator op, which owns them in order.
add_build_sets(bs, ops, op, added) ==
  [bsets |-> [i \in 1..Len(bs) |->
                IF i \in Members(added) THEN [bs[i] EXCEPT !.operator = op] ELSE bs[i]],
   op_sets |-> [ops EXCEPT ![op] = @ \o added]]

\* create_operator(for_each=for_each, commands=...) with the commands naming
\* the groups on_sets, lines 611-620.
create_operator(for_each, on_sets) ==
  LET b == current_build_set
      op == Len(op_sets) + 1
      r == partite_result(b, on_sets, TRUE)
      split == add_build_sets(r.bsets, Append(r.op_sets, <<>>), op, r.results)
      whole == add_build_sets(bsets, Append(op_sets, <<>>), op, <<b>>)
  IN /\ b # NoBuildSet
     /\ Len(op_sets) < MaxOperators
     /\ IF for_each
          THEN /\ Len(r.bsets) <= MaxBuildSets
               /\ Len(r.file_sets) <= MaxFileSets
               /\ file_sets' = r.file_sets
               /\ bsets' = split.bsets
               /\ live' = r.live
               /\ op_sets' = split.op_sets
               /\ current_build_set' = r.current
               /\ part' = <<PartRecord(b, on_sets, TRUE, r, op)>>
          ELSE /\ on_sets = {}
               /\ IF bsets[b].operator # NoOperator
                    THEN \* add_build_set raises: attached to another Operator
                         /\ op_sets' = Append(op_sets, <<>>)
                         /\ UNCHANGED bsets
                    ELSE /\ op_sets' = whole.op_sets
                         /\ bsets' = whole.bsets
               /\ part' = <<>>
               /\ UNCHANGED <<file_sets, live, current_build_set>>
     /\ joined' = <<>>
     /\ UNCHANGED <<execVars, progressVars, depsVars, propVars, newVars, skipVars, ninjaVars, mainVars>>

\* A join that lists the files of the last set first.
joined_files_reversed(sets) ==
  concat([i \in 1..Len(sets) |-> file_sets[sets[Len(sets) + 1 - i]]])

\* [y for x in sets for y in x], line 477.
joined_files(sets) == concat([i \in 1..Len(sets) |-> file_sets[sets[i]]])

\* join_file_sets(sets) with sets the FileSets of group name of the build
\* sets the last partite() yielded, in yield order, lines 468-478.
join_file_sets(name) ==
  /\ part # <<>>
  /\ part[1].error = "none"
  /\ name \in group_names(bsets[part[1].source])
  /\ LET sets == [i \in 1..Len(part[1].results) |-> group(bsets[part[1].results[i]], name)]
         files == joined_files(sets)
     IN IF Len(sets) = 1
          THEN /\ joined' = <<[name |-> name, sets |-> sets, set |-> sets[1]]>>
               /\ UNCHANGED file_sets
          ELSE /\ Len(file_sets) < MaxFileSets
               /\ file_sets' = Append(file_sets, file_set(files))
               /\ joined' = <<[name |-> name, sets |-> sets, set |-> Len(file_sets) + 1]>>
  /\ UNCHANGED <<bsets, live, op_sets, current_build_set, part,
                 execVars, progressVars, depsVars, propVars, newVars, skipVars, ninjaVars, mainVars>>

BuildNext ==
  \/ /\ Len(bsets) < MaxDeclared
     /\ \E ins \in UNION {[D -> RawLists] : D \in SUBSET InputNames},
           outs \in UNION {[D -> RawLists] : D \in SUBSET OutputNames} :
          build_set(ins, outs, "variables")
  \/ \E b \in 1..MaxBuildSets, on_sets \in OnSets, do_fizzle \in BOOLEAN :
       b <= Len(bsets) /\ partite(b, on_sets, do_fizzle)
  \/ \E for_each \in BOOLEAN, on_sets \in OnSets :
       create_operator(for_each, on_sets)

\* Scripts declaring, partitioning and joining again.
JoinNext ==
  \/ /\ Len(bsets) < MaxDeclared
     /\ \E ins \in UNION {[D -> RawLists] : D \in SUBSET InputNames},
           outs \in UNION {[D -> RawLists] : D \in SUBSET OutputNames} :
          build_set(ins, outs, "variables")
  \/ \E b \in 1..MaxBuildSets, on_sets \in OnSets, do_fizzle \in BOOLEAN :
       b <= Len(bsets) /\ partite(b, on_sets, do_fizzle)
  \/ \E name \in InputNames \cup OutputNames : join_file_sets(name)

(***************************************************************************)
(* ActionData.new (actions.py:126-153) called for one target.  An Action   *)
(* is known by its name; "..." and "Ellipsis" are the two spellings of the *)
(* sentinel ('...' and the Ellipsis object).                               *)
(***************************************************************************)
\* The targets the target depends on, and the leaf actions of each.
private_deps == {"d1"}
transitive_deps == {"d2", "d3"}
leaf_actions == [d \in private_deps \cup transitive_deps |->
                   IF d = "d1" THEN {"l1", "l2"}
                   ELSE IF d = "d2" THEN {"l2"} ELSE {"l3"}]
Sentinels == {"...", "Ellipsis"}
\* The names of the Actions new() creates, in creation order.
NewNames == <<"n1", "n2", "n3">>

NewInit ==
  /\ target_actions = <<>>
  /\ new_result = <<>>

\* leaves() reading the private dependencies only.
leaves_private_only ==
  UNION {leaf_actions[dep] : dep \in private_deps}

\* leaves(), lines 133-139.
leaves ==
  UNION {leaf_actions[dep] : dep \in private_deps}
    \cup UNION {leaf_actions[dep] : dep \in transitive_deps}

\* list(s) of a set s: its elements once each, in an order Python chooses.
list_of(s) ==
  {l \in [1..Cardinality(s) -> s] : \A i, j \in 1..Cardinality(s) : i # j => l[i] # l[j]}

\* deps.index(x), lines 144-150: 0 stands for ValueError.
index(l, x) ==
  IF \E i \in 1..Len(l) : l[i] = x
    THEN CHOOSE i \in 1..Len(l) : l[i] = x /\ \A j \in 1..(i - 1) : l[j] # x
    ELSE 0

\* The deps lines 141-152 pass to Action() for the argument deps=arg, with
\* order the list(leaves()).
resolved(bare, arg, order) ==
  IF bare THEN order
  ELSE LET i == IF index(arg, "...") # 0 THEN index(arg, "...")
                ELSE index(arg, "Ellipsis")
       IN IF i = 0 THEN arg
          ELSE SubSeq(arg, 1, i - 1) \o order \o SubSeq(arg, i + 1, Len(arg))

\* cls.new(target, deps=arg), lines 141-159; bare tells that deps is the
\* sentinel itself, which arg then holds as its one element.
new(bare, arg) ==
  /\ Len(target_actions) < MaxNew
  /\ bare => Len(arg) = 1 /\ arg[1] \in Sentinels
  /\ \E order \in list_of(leaves) :
       LET r == resolved(bare, arg, order) IN
         IF \E i \in 1..Len(r) : r[i] \in Sentinels
           THEN \* Action.__init__ raises TypeError (lines 33-34)
                /\ new_result' = <<[bare |-> bare, arg |-> arg, error |-> "TypeError",
                                    action |-> 0]>>
                /\ UNCHANGED target_actions
           ELSE /\ target_actions' = Append(target_actions, r)
                /\ new_result' = <<[bare |-> bare, arg |-> arg, error |-> "none",
                                    action |-> Len(target_actions) + 1]>>
  /\ UNCHANGED <<execVars, progressVars, depsVars, propVars, buildVars, skipVars, ninjaVars, mainVars>>

\* The deps callers pass: Actions of the target created before, and sentinels.
DepsLists ==
  UNION {[1..n -> {NewNames[i] : i \in 1..Len(target_actions)} \cup Sentinels] :
           n \in 0..MaxDeps}

NewNext ==
  \E bare \in BOOLEAN, arg \in DepsLists : new(bare, arg)

(***************************************************************************)
(* System.is_skippable (actions.py:383-398) of one System payload over a   *)
(* file system that gives each file a modification time or has no such     *)
(* file.  The clock reads MaxMtime when is_skippable is called; a file may *)
(* be stamped later than the clock, also beyond time.time() + 1000.        *)
(***************************************************************************)
InputFiles == <<"i1", "i2">>
OutputFiles == <<"o1", "o2">>
AllFiles == {"i1", "i2", "o1", "o2"}
Missing == -1
time_time == MaxMtime
FarFuture == time_time + 1000 + 1
Mtimes == 1..MaxMtime \cup {FarFuture}

SkipInit ==
  /\ payload = <<>>
  /\ mtime = [f \in AllFiles |-> Missing]
  /\ skippable = <<>>
  /\ touched = <<>>

Max(S) == CHOOSE x \in S : \A y \in S : y <= x
Min(S) == CHOOSE x \in S : \A y \in S : x <= y

\* os.path.exists(p)
exists(fs, p) == fs[p] # Missing

\* getmtime(p, default), lines 391-395: OSError when there is no file p.
getmtime(fs, p, default) == IF exists(fs, p) THEN fs[p] ELSE default

\* ifiles taken as the oldest input instead of the newest.
ifiles_min(fs, input_files) ==
  Min({getmtime(fs, input_files[i], time_time + 1000) : i \in 1..Len(input_files)})

\* line 396
ifiles(fs, input_files) ==
  Max({getmtime(fs, input_files[i], time_time + 1000) : i \in 1..Len(input_files)})

\* ofiles with a missing output counted as newer than everything.
ofiles_ignores_missing(fs, output_files) ==
  Min({getmtime(fs, output_files[i], FarFuture + 1) : i \in 1..Len(output_files)})

\* line 397
ofiles(fs, output_files) ==
  Min({getmtime(fs, output_files[i], 0) : i \in 1..Len(output_files)})

\* System.is_skippable, lines 383-398.
is_skippable_of(fs, data) ==
  IF data.input_files = <<>>
    THEN IF data.output_files = <<>> THEN FALSE
         ELSE \A i \in 1..Len(data.output_files) : exists(fs, data.output_files[i])
    ELSE IF data.output_files = <<>> THEN FALSE
         ELSE ifiles(fs, data.input_files) < ofiles(fs, data.output_files)

\* System(commands, input_files, output_files), lines 371-377.
System(input_files, output_files) ==
  /\ payload = <<>>
  /\ payload' = <<[input_files |-> input_files, output_files |-> output_files]>>
  /\ UNCHANGED <<mtime, skippable, touched>>
  /\ UNCHANGED <<execVars, progressVars, depsVars, propVars, buildVars, newVars, ninjaVars, mainVars>>

Declared ==
  IF payload = <<>> THEN {}
  ELSE Members(payload[1].input_files) \cup Members(payload[1].output_files)

\* A declared file is written or touched: it exists with the mtime t.
touch(f, t) ==
  /\ f \in Declared
  /\ mtime[f] # t
  /\ mtime' = [mtime EXCEPT ![f] = t]
  /\ touched' = IF skippable # <<>>
                  THEN <<[file |-> f, old |-> mtime[f], was |-> skippable[1]]>>
                  ELSE <<>>
  /\ skippable' = <<>>
  /\ UNCHANGED payload
  /\ UNCHANGED <<execVars, progressVars, depsVars, propVars, buildVars, newVars, ninjaVars, mainVars>>

\* A declared file is deleted.
remove(f) ==
  /\ f \in Declared
  /\ exists(mtime, f)
  /\ mtime' = [mtime EXCEPT ![f] = Missing]
  /\ touched' = <<>>
  /\ skippable' = <<>>
  /\ UNCHANGED payload
  /\ UNCHANGED <<execVars, progressVars, depsVars, propVars, buildVars, newVars, ninjaVars, mainVars>>

\* Action.is_skippable (lines 52-57) asks the payload.
is_skippable ==
  /\ payload # <<>>
  /\ skippable = <<>>
  /\ skippable' = <<is_skippable_of(mtime, payload[1])>>
  /\ UNCHANGED <<payload, mtime, touched>>
  /\ UNCHANGED <<execVars, progressVars, depsVars, propVars, buildVars, newVars, ninjaVars, mainVars>>

SkipNext ==
  \/ \E n \in 0..Len(InputFiles), m \in 0..Len(OutputFiles) :
       System(SubSeq(InputFiles, 1, n), SubSeq(OutputFiles, 1, m))
  \/ \E f \in AllFiles, t \in Mtimes : touch(f, t)
  \/ \E f \in AllFiles : remove(f)
  \/ is_skippable

(***************************************************************************)
(* The ninja backend: make_rule_name and prepare_build                     *)
(* (backends/ninja/__init__.py:33-82).  A string is the sequence of its    *)
(* characters; a content hash is one token.  A node is the record of the   *)
(* fields prepare_build reads.  A document is the sequence of the          *)
(* statements written per node, and the default statement if one is        *)
(* written.                                                                *)
(***************************************************************************)
NodeNames == {<<"a">>, <<"a", "/", "/", "b">>, <<"a", "_", "b">>}
Hashes == {"h1", "h2"}
FileLists == {<<>>, <<<<"f">>>>}

NinjaInit ==
  /\ graph = <<>>
  /\ documents = <<>>
  /\ exported = <<>>

\* Code points of the characters, for Python's comparison of strings.
ord == [c \in {"/", "_", "a", "b"} |->
          IF c = "/" THEN 47 ELSE IF c = "_" THEN 95 ELSE IF c = "a" THEN 97 ELSE 98]

\* s < t for strings.
RECURSIVE str_lt(_, _)
str_lt(s, t) ==
  IF t = <<>> THEN FALSE
  ELSE IF s = <<>> THEN TRUE
  ELSE IF ord[Head(s)] # ord[Head(t)] THEN ord[Head(s)] < ord[Head(t)]
  ELSE str_lt(Tail(s), Tail(t))

\* The characters the pattern [^\d\w\-_\.] of line 34 does not match.
word_char(c) == c \in {"a", "b", "_"}

\* re.sub('[^\d\w\-_\.]+', '_', s): every run of other characters becomes one "_".
RECURSIVE re_sub(_)
re_sub(s) ==
  IF s = <<>> THEN <<>>
  ELSE IF word_char(Head(s)) THEN <<Head(s)>> \o re_sub(Tail(s))
  ELSE IF Len(s) > 1 /\ ~word_char(s[2]) THEN re_sub(Tail(s))
  ELSE <<"_">> \o re_sub(Tail(s))

\* graph.hash(node): the content hash of the node.
hash(g, x) == g[x].hash

\* make_rule_name(graph, node), line 34.
make_rule_name(g, x) == re_sub(g[x].name) \o <<"_", hash(g, x)>>

\* graph.nodes(): the nodes in the iteration order of the container.
nodes(g) ==
  {l \in [1..Len(g) -> 1..Len(g)] : \A i, j \in 1..Len(g) : i # j => l[i] # l[j]}

\* sorted(l, key=lambda x: x.name): a stable insertion of each node in turn.
insert(g, l, x) ==
  LET k == Cardinality({i \in 1..Len(l) : ~str_lt(g[x].name, g[l[i]].name)})
  IN SubSeq(l, 1, k) \o <<x>> \o SubSeq(l, k + 1, Len(l))

RECURSIVE sorted(_, _)
sorted(g, l) ==
  IF l = <<>> THEN <<>>
  ELSE insert(g, sorted(g, SubSeq(l, 1, Len(l) - 1)), l[Len(l)])

\* Lines 64-69: one order-only edge per dependency, on its rule name.
order_only(g, x) == [i \in 1..Len(g[x].deps) |-> make_rule_name(g, g[x].deps[i])]

\* Lines 53-79: what prepare_build writes for the node x.
statements(g, x) ==
  LET phony_name == make_rule_name(g, x)
      rule_name == <<"rule_">> \o phony_name
  IN [rule |-> [name |-> rule_name,
                pool |-> IF g[x].console THEN "console" ELSE "none"],
      build |-> [outputs |-> IF g[x].output_files # <<>>
                               THEN g[x].output_files ELSE <<phony_name>>,
                 rule |-> rule_name,
                 inputs |-> g[x].input_files,
                 order_only |-> order_only(g, x)],
      phony |-> IF g[x].output_files # <<>>
                  THEN <<[outputs |-> <<phony_name>>, rule |-> <<"phony">>,
                          inputs |-> g[x].output_files]>>
                  ELSE <<>>]

\* Lines 51-56, 81-82: the names of the non-explicit nodes, in the order
\* written; writer.default only if there are any.
non_explicit(g, l) ==
  LET ne == SelectSeq(l, LAMBDA x : ~g[x].explicit)
  IN [i \in 1..Len(ne) |-> make_rule_name(g, ne[i])]

document(g, l) ==
  [statements |-> [i \in 1..Len(l) |-> statements(g, l[i])],
   default |-> IF non_explicit(g, l) # <<>> THEN <<non_explicit(g, l)>> ELSE <<>>]

\* A node is added to the graph; its dependencies are nodes added before.
add_node(node) ==
  /\ graph' = Append(graph, node)
  /\ UNCHANGED <<documents, exported>>
  /\ UNCHANGED <<execVars, progressVars, depsVars, propVars, buildVars, newVars, skipVars, mainVars>>

\* prepare_build(build_directory, graph), lines 37-82: the file is opened
\* with 'w' and written whole.
prepare_build ==
  /\ graph # <<>>
  /\ Len(documents) < MaxExports
  /\ \E l \in nodes(graph) :
       /\ documents' = Append(documents, document(graph, sorted(graph, l)))
       /\ exported' = Append(exported, sorted(graph, l))
  /\ UNCHANGED graph
  /\ UNCHANGED <<execVars, progressVars, depsVars, propVars, buildVars, newVars, skipVars, mainVars>>

\* The lists of dependencies a new node can have: earlier nodes, none twice.
DepLists(n) ==
  UNION {{l \in [1..k -> 1..n] : \A i, j \in 1..k : i # j => l[i] # l[j]} : k \in 0..n}

NinjaNext ==
  \/ /\ Len(graph) < MaxNodes
     /\ documents = <<>>
     /\ \E name \in NodeNames, h \in Hashes, explicit \in BOOLEAN, syncio \in BOOLEAN,
           ins \in FileLists, outs \in FileLists, ds \in DepLists(Len(graph)) :
          add_node([name |-> name, hash |-> h, explicit |-> explicit,
                    console |-> syncio, deps |-> ds,
                    input_files |-> ins, output_files |-> outs])
  \/ prepare_build

(***************************************************************************)
(* BuildCommand.execute with read_cache, serialise_loaded_module_info and  *)
(* unserialise_loaded_module_info (__main__.py:50-59, 129-166, 288-424),   *)
(* run in one build directory.  The main module loads the module "lib" or  *)
(* not; a module's dependent files are its script and manifest.            *)
(***************************************************************************)
Modes == {"clean", "build", "export", "run"}
ModuleNames == {"main", "lib"}
dependent_files == [m \in ModuleNames |->
                      IF m = "main" THEN <<"manifest", "craftrfile">> ELSE <<"libfile">>]
DependentFiles == {"manifest", "craftrfile", "libfile"}

\* The cache file when it holds no JSON object: kind is "missing" or
\* "unparsable".
NoCache(kind) == [kind |-> kind, filled |-> FALSE, modules |-> [m \in {} |-> 0]]

MainInit ==
  /\ cachefile = NoCache("missing")
  /\ imtime = [f \in DependentFiles |-> 1]
  /\ ran = <<>>

\* read_cache(cachefile), lines 50-59: False on IOError and on ValueError.
read_cache(file) == file.kind = "json"

\* Line 324: whether the command ends with 'return 1'.
not_a_build_directory_always(file, mode) == ~read_cache(file)
not_a_build_directory(file, mode) == ~read_cache(file) /\ mode # "export"

\* sum(map(path.getimtime, module.dependent_files)), line 136.
RECURSIVE sum(_, _)
sum(fs, files) ==
  IF files = <<>> THEN 0 ELSE fs[Head(files)] + sum(fs, Tail(files))

\* serialise_loaded_module_info(), lines 129-140, with the modules in
\* 'executed' those that have been executed.
serialise_loaded_module_info(fs, executed_modules) ==
  [m \in executed_modules |->
     [deps |-> dependent_files[m], mtime |-> sum(fs, dependent_files[m])]]

\* Lines 158-164: the sum over module['deps']; 0 once a file is missing.
RECURSIVE recomputed(_, _, _)
recomputed(fs, files, acc) ==
  IF files = <<>> THEN acc
  ELSE IF fs[Head(files)] = Missing THEN 0
  ELSE recomputed(fs, Tail(files), acc + fs[Head(files)])

\* Line 165 reading 'older than recorded' as unchanged.
changed_if_newer(now, recorded) == now > recorded
\* module['changed'], line 165.
changed(now, recorded) == now # recorded

\* unserialise_loaded_module_info(modules), lines 143-166: the modules that
\* get changed = True.
changed_modules(fs, modules) ==
  {m \in DOMAIN modules : changed(recomputed(fs, modules[m].deps, 0), modules[m].mtime)}

\* What the command did: the value execute returned (<<>> if it raised or
\* returned None), the error it raised, whether module.run() was called,
\* whether the executor was launched, whether the cache file was written,
\* and the modules named in the 'has changed' note.
Ran(mode, returned, raised, module_run, launched, written, note) ==
  [mode |-> mode, read |-> read_cache(cachefile), returned |-> returned,
   raised |-> raised, module_run |-> module_run, launched |-> launched,
   written |-> written, note |-> note]

\* Lines 291-311: an export or run whose manifest is not found ends in
\* parser.error before the build directory is entered.
no_manifest(mode) ==
  mode \in {"export", "run"} /\ imtime["manifest"] = Missing

\* Lines 331-364: export and run.  The finally block of line 343 writes the
\* cache of an export however module.run() ends.
export_or_run(mode, result, loads_lib) ==
  LET loaded == IF loads_lib THEN ModuleNames ELSE {"main"}
      \* a module whose script is missing cannot be run
      ended == IF \E m \in loaded : \E i \in 1..Len(dependent_files[m]) :
                    imtime[dependent_files[m][i]] = Missing
                 THEN "ModuleError" ELSE result
      build == IF ended = "ok"
                 THEN [kind |-> "json", filled |-> TRUE,
                       modules |-> serialise_loaded_module_info(imtime, loaded)]
                 ELSE [kind |-> "json", filled |-> FALSE, modules |-> [m \in {} |-> 0]]
  IN /\ cachefile' = IF mode = "export" THEN build ELSE cachefile
     /\ ran' = <<Ran(mode, IF ended = "ok" THEN <<>> ELSE <<1>>, "none", TRUE,
                                   FALSE, mode = "export", {})>>

\* Lines 366-424: build and clean, with the cache read.  A cache written by
\* an export whose module.run() failed has no 'options' key (line 367).
build_or_clean(mode, returncode) ==
  /\ UNCHANGED cachefile
  /\ IF ~read_cache(cachefile) \/ ~cachefile.filled
       THEN ran' = <<Ran(mode, <<>>, "KeyError", FALSE, FALSE, FALSE, {})>>
       ELSE ran' = <<Ran(mode, <<returncode>>, "none", FALSE, TRUE, FALSE,
                                       changed_modules(imtime, cachefile.modules))>>

\* BuildCommand(mode).execute(parser, args), lines 288-424.
execute(mode, result, loads_lib, returncode) ==
  /\ ran = <<>>
  /\ IF no_manifest(mode)
       THEN /\ ran' = <<Ran(mode, <<>>, "SystemExit", FALSE, FALSE, FALSE, {})>>
            /\ UNCHANGED cachefile
       ELSE IF not_a_build_directory(cachefile, mode)
         THEN /\ ran' = <<Ran(mode, <<1>>, "none", FALSE, FALSE, FALSE, {})>>
              /\ UNCHANGED cachefile
         ELSE IF mode \in {"export", "run"}
           THEN export_or_run(mode, result, loads_lib)
           ELSE build_or_clean(mode, returncode)
  /\ UNCHANGED imtime
  /\ UNCHANGED <<execVars, progressVars, depsVars, propVars, buildVars, newVars, skipVars, ninjaVars>>

\* The user is back at the prompt.
prompt ==
  /\ ran # <<>>
  /\ ran' = <<>>
  /\ UNCHANGED <<cachefile, imtime>>
  /\ UNCHANGED <<execVars, progressVars, depsVars, propVars, buildVars, newVars, skipVars, ninjaVars>>

\* A dependent file is edited, or deleted (t = Missing).
edit(f, t) ==
  /\ ran = <<>>
  /\ imtime[f] # t
  /\ imtime' = [imtime EXCEPT ![f] = t]
  /\ UNCHANGED <<cachefile, ran>>
  /\ UNCHANGED <<execVars, progressVars, depsVars, propVars, buildVars, newVars, skipVars, ninjaVars>>

\* The cache file is deleted or overwritten with something that is not JSON.
damage(how) ==
  /\ ran = <<>>
  /\ cachefile.kind # how
  /\ cachefile' = NoCache(how)
  /\ UNCHANGED <<imtime, ran>>
  /\ UNCHANGED <<execVars, progressVars, depsVars, propVars, buildVars, newVars, skipVars, ninjaVars>>

MainNext ==
  \/ \E mode \in Modes, result \in {"ok", "InvalidOption", "ModuleError"},
        loads_lib \in BOOLEAN, returncode \in {0, 1} :
       execute(mode, result, loads_lib, returncode)
  \/ prompt
  \/ \E f \in DependentFiles, t \in 1..MaxMtime \cup {Missing} : edit(f, t)
  \/ \E how \in {"missing", "unparsable"} : damage(how)

(***************************************************************************)
(* Specifications                                                          *)
(***************************************************************************)
\* Workers calling skip / execute / execute_with on the Actions.
Init == ExecInit /\ ProgressObjectInit(TRUE) /\ DepsInit /\ PropsInit /\ BuildInit /\ NewInit /\ SkipInit /\ NinjaInit /\ MainInit
Next == ExecNext
Spec == Init /\ [][Next]_vars

\* Threads calling abort / on_abort / system on one ActionProgress.
InitProgress == ExecInit /\ DepsInit /\ PropsInit /\ BuildInit /\ NewInit /\ SkipInit /\ NinjaInit /\ MainInit /\ \E b \in BOOLEAN : ProgressObjectInit(b)
NextProgress == ProgressNext
SpecProgress == InitProgress /\ [][NextProgress]_vars

\* Build scripts adding dependencies and reading transitive dependencies.
NextDeps == DepsNext
SpecDeps == Init /\ [][NextDeps]_vars

\* Build scripts setting properties, adding dependencies and reading them.
NextProps == PropsNext
SpecProps == Init /\ [][NextProps]_vars

\* Build scripts declaring a build set, partitioning build sets, creating
\* operators and joining file sets.
NextBuild == BuildNext
SpecBuild == Init /\ [][NextBuild]_vars

\* Build scripts declaring a build set, partitioning and joining again.
NextJoin == JoinNext
SpecJoin == Init /\ [][NextJoin]_vars

\* Target handlers creating the Actions of one target.
NextNew == NewNext
SpecNew == Init /\ [][NextNew]_vars

\* A System payload whose files are touched and removed between the checks.
NextSkip == SkipNext
SpecSkip == Init /\ [][NextSkip]_vars

\* A graph is assembled and then exported, more than once.
NextNinja == NinjaNext
SpecNinja == Init /\ [][NextNinja]_vars

\* Commands run in one build directory while files are edited in between.
NextMain == MainNext
SpecMain == Init /\ [][NextMain]_vars

(***************************************************************************)
(* Claims about Action.execute / execute_with / skip                       *)
(***************************************************************************)
\* A worker at line 100 calls the payload's execute in its next step.
AboutToRunPayload(t) == pc[t] = "execute_L100"
RunningPayload(t) == pc[t] = "payload"

\* C1: the payload of an Action starts running only at a moment when every
\* Action in its deps is executed or skipped (is_executed() is true of it).
C1_PayloadStartsAfterDeps ==
  \A t \in Threads :
    AboutToRunPayload(t) =>
      \A i \in 1..Len(deps[self[t]]) : is_executed(deps[self[t]][i])

\* C2: execute_with on a Pending Action with a dependency that is neither
\* executed nor skipped fails with the dependency error and leaves the Action
\* as it was: no progress object attached, not skipped.
C2_FailedExecuteWithLeavesPending ==
  \A t \in Threads :
    (pc[t] = "raised" /\ err[t] = "dependent_not_executed"
       /\ via[t] = "execute_with" /\ ~preterm[t]
       /\ \A u \in Threads \ {t} : pc[u] = "idle")
    => (progress[self[t]] = NoProgress /\ ~skipped[self[t]])

\* C3: a call of execute, execute_with or skip made on an Action that is
\* already executed or skipped (no other call on it being in flight) fails
\* with an error: it never returns normally.
C3_CallOnTerminalActionFails ==
  \A t \in Threads : (pc[t] = "returned" /\ preterm[t]) => FALSE

\* C4: whatever fault the payload raises (exception, interrupt, interpreter
\* exit), execute returns and records a non-zero integer code, 127 with the
\* traceback in the progress buffer for an exception or interrupt.
IsFault(o) == o.kind \in {"raise", "interrupt", "exit"}
C4_FaultRecordedAsFailure ==
  [][\A t \in Threads :
       (pc[t] = "payload" /\ pc'[t] = "returned" /\ IsFault(outcome'[t])) =>
         /\ code'[lprogress[t]] # None
         /\ code'[lprogress[t]] # Int_(0)
         /\ outcome'[t].kind \in {"raise", "interrupt"} =>
              /\ code'[lprogress[t]] = Int_(FaultCode)
              /\ "traceback" \in buffer'[lprogress[t]]]_vars

\* C5: when execute returns after running the payload, progress.executed is
\* true and progress.code is an integer, 0 when the payload returned None.
C5_CodeIsIntegerOnReturn ==
  [][\A t \in Threads :
       (pc[t] = "payload" /\ pc'[t] = "returned") =>
         /\ executed'[lprogress[t]]
         /\ code'[lprogress[t]] # None
         /\ lcode'[t] = code'[lprogress[t]]
         /\ outcome'[t] = [kind |-> "return", val |-> None] =>
              code'[lprogress[t]] = Int_(0)]_vars

\* An Action whose recorded exit code is a non-zero integer.
Failed(a) ==
  /\ progress[a] # NoProgress
  /\ executed[progress[a]]
  /\ code[progress[a]] \notin {None, Int_(0)}

\* C6: the payload of an Action is never started when one of its dependencies
\* finished with a non-zero exit code.
C6_DependentsOfFailedNotStarted ==
  \A t \in Threads :
    AboutToRunPayload(t) =>
      \A i \in 1..Len(deps[self[t]]) : ~Failed(deps[self[t]][i])

\* C9: at most one Action of a console operator is executing at any moment.
C9_OneConsoleActionAtATime ==
  Cardinality({a \in Actions :
                 console[a] /\ \E t \in Threads : RunningPayload(t) /\ self[t] = a}) <= 1

(***************************************************************************)
(* Claims about ActionProgress.abort / on_abort / system                   *)
(***************************************************************************)
\* C7: with callbacks registered and then abort() called any number of times,
\* from several threads: no callback is ever invoked more than once, and when
\* a call of abort() has returned the aborted flag is set and every callback
\* registered before the first abort() began has been invoked exactly once.
C7_AbortCallbacksOnce ==
  /\ \A i \in 1..Len(invoked) : invoked[i] <= 1
  /\ \A t \in Aborters :
       abort_pc[t] = "returned" =>
         /\ aborted
         /\ \A i \in 1..registered_when_aborted : invoked[i] = 1

\* Two concurrent abort() calls have both returned, with two callbacks
\* registered before them (one of them raising), each invoked once.
C7_Witness ==
  /\ \A t \in Aborters : abort_pc[t] = "returned"
  /\ registered_when_aborted >= 2
  /\ \E i \in 1..Len(abort_callbacks) : abort_callbacks[i] = "raising"
  /\ \A i \in 1..registered_when_aborted : invoked[i] = 1

\* C8: an abort() called while system() has a live child requests the
\* termination of that child: when the call has returned and the child is
\* still running, proc.terminate() has been called.
C8_AbortTerminatesLiveChild ==
  \A t \in Aborters :
    (abort_pc[t] = "returned" /\ live_at_call[t] /\ proc = "live")
      => terminate_requested

(***************************************************************************)
(* Claims about Target.transitive_dependencies                             *)
(***************************************************************************)
\* The targets t has an edge to, of either kind.
Successors(g, t) == {g[t][i].target : i \in 1..Len(g[t])}

\* S and the targets reachable from it in at most n steps.
RECURSIVE Closure(_, _, _)
Closure(g, S, n) ==
  IF n = 0 THEN S
  ELSE Closure(g, S \cup UNION {Successors(g, t) : t \in S}, n - 1)

\* No target depends on itself, directly or transitively.
Acyclic(g) ==
  \A t \in Targets : t \notin Closure(g, Successors(g, t), NumTargets)

\* C10: on every dependency graph add_dependency can build without a target
\* depending on itself (diamonds included), the sequence produced by
\* T.transitive_dependencies() is finite, holds no two edges pointing to the
\* same target, and no edge pointing to T.
C10_VisitsNoTargetTwice ==
  (td # <<>> /\ Acyclic(dependencies)) =>
    LET r == td[1] IN
      /\ ~r.overflow
      /\ \A i, j \in 1..Len(r.edges) :
           i # j => r.edges[i].target # r.edges[j].target
      /\ \A i \in 1..Len(r.edges) : r.edges[i].target # r.target

\* The targets t has a public edge to.
PublicSuccessors(g, t) ==
  {g[t][i].target : i \in {j \in 1..Len(g[t]) : g[t][j].public}}

\* S and the targets reachable from it over public edges in at most n steps.
RECURSIVE PublicClosure(_, _, _)
PublicClosure(g, S, n) ==
  IF n = 0 THEN S
  ELSE PublicClosure(g, S \cup UNION {PublicSuccessors(g, t) : t \in S}, n - 1)

\* The indirect owners whose public edges T inherits: the targets reached
\* from T by one edge of either kind followed by public edges only.
PubliclyReached(g, T) == PublicClosure(g, Successors(g, T), NumTargets)

\* T's own edges, and the public edges of the targets publicly reached.
VisibleEdges(g, T) ==
  {g[T][i] : i \in 1..Len(g[T])}
    \cup UNION {{g[x][i] : i \in {j \in 1..Len(g[x]) : g[x][j].public}} :
                 x \in PubliclyReached(g, T)}

\* C11: T.transitive_dependencies() yields exactly T's own edges (public and
\* private) and the public edges of the targets reached from T through a path
\* whose edges after the first are all public; nothing behind a private edge
\* of an indirect dependency is yielded.
C11_YieldsOnlyPubliclyVisibleEdges ==
  (td # <<>> /\ Acyclic(dependencies)) =>
    LET r == td[1] IN
      {r.edges[i] : i \in 1..Len(r.edges)} = VisibleEdges(dependencies, r.target)

(***************************************************************************)
(* Claims about Target.add_dependency                                      *)
(***************************************************************************)
\* The owner of list l has an edge to target o.
HasEdgeTo(l, o) == \E i \in 1..Len(l) : l[i].target = o

\* C14: add_dependency(t, other, public) fails with the duplicate error
\* whenever t already has an edge to other, whatever the public flags, and
\* then leaves t's list unchanged; otherwise it appends exactly one edge at
\* the end of t's list; so no target ever has two edges to the same target.
C14_DuplicateEdgeRejected ==
  [][add_args' # <<>> =>
       LET a == add_args'[1] IN
         /\ IF HasEdgeTo(dependencies[a.owner], a.target)
              THEN /\ add_error' = "already_exists"
                   /\ dependencies' = dependencies
              ELSE /\ add_error' = "none"
                   /\ dependencies' = [dependencies EXCEPT ![a.owner] = Append(@, a)]
         /\ \A t \in Targets : \A i, j \in 1..Len(dependencies'[t]) :
              i # j => dependencies'[t][i].target # dependencies'[t][j].target]_vars

\* A call was rejected as a duplicate although its public flag differs from
\* the existing edge's, on a target that already has two edges in order.
C14_Witness ==
  /\ add_args # <<>>
  /\ add_error = "already_exists"
  /\ LET a == add_args[1] IN
       /\ Len(dependencies[a.owner]) >= 2
       /\ \E i \in 1..Len(dependencies[a.owner]) :
            /\ dependencies[a.owner][i].target = a.target
            /\ dependencies[a.owner][i].public # a.public

\* C15: no target depends on itself, directly or transitively, after any
\* sequence of add_dependency calls: add_dependency(t, t) fails with a
\* self-dependency error and no accepted call closes a cycle.
C15_NoSelfOrCyclicDependency ==
  /\ Acyclic(dependencies)
  /\ (add_args # <<>> /\ add_args[1].owner = add_args[1].target) =>
       add_error = "self_dependency"

(***************************************************************************)
(* Claims about Target.get_prop(inherit=True)                              *)
(***************************************************************************)
Elems(l) == {l[i] : i \in 1..Len(l)}
FirstPos(l, x) == CHOOSE i \in 1..Len(l) : l[i] = x /\ \A j \in 1..(i - 1) : l[j] # x
NoRepeats(l) == \A i, j \in 1..Len(l) : i # j => l[i] # l[j]

\* v holds the values of l, each once, in the order of their first
\* occurrence in l.
FirstOccurrences(v, l) ==
  /\ NoRepeats(v)
  /\ Elems(v) = Elems(l)
  /\ \A x, y \in Elems(l) :
       FirstPos(l, x) < FirstPos(l, y) => FirstPos(v, x) < FirstPos(v, y)

\* The dependency graph around A is the public chain A -> B -> C.
PublicChain(A, B, C) ==
  /\ Cardinality({A, B, C}) = 3
  /\ dependencies[A] = <<[owner |-> A, target |-> B, public |-> TRUE]>>
  /\ dependencies[B] = <<[owner |-> B, target |-> C, public |-> TRUE]>>
  /\ dependencies[C] = <<>>

\* C12: for a public dependency chain A -> B -> C, A.get_prop(P, inherit=True)
\* contains every value set on A and on the public properties of B and C,
\* each once, in first-occurrence order, and no value that is set only in
\* the private properties of B or C.
C12_InheritedReadOverPublicChain ==
  got # <<>> =>
    \A B, C \in Targets :
      PublicChain(got[1].target, B, C) =>
        LET A == got[1].target
            v == got[1].value
            visible == getitem(public_properties, A) \o getitem(properties, A)
                         \o getitem(public_properties, B)
                         \o getitem(public_properties, C)
        IN /\ ~got[1].overflow
           /\ FirstOccurrences(v, visible)
           /\ \A x \in (Elems(getitem(properties, B)) \cup Elems(getitem(properties, C)))
                        \ Elems(visible) : x \notin Elems(v)

\* A read the property over the chain 1 -> 2 -> 3: it inherited the public
\* value of the indirect dependency 3 and not the private value of 2.
C12_Witness ==
  /\ got # <<>> /\ got[1].target = 1
  /\ PublicChain(1, 2, 3)
  /\ getitem(public_properties, 3) = <<"X">>
  /\ getitem(properties, 2) = <<"Y">>
  /\ got[1].value = <<"X">>

Files(b, n) == file_sets[group(bsets[b], n)]

\* The groups of build set b that partite(*on_sets) is asked to partition.
Selected(b, on_sets) ==
  IF on_sets = {} THEN group_names(bsets[b]) ELSE on_sets \cap group_names(bsets[b])

\* The selection holds an input group and an output group, all of one size.
Partitionable(b, on_sets) ==
  /\ Selected(b, on_sets) \cap DOMAIN bsets[b].inputs # {}
  /\ Selected(b, on_sets) \cap DOMAIN bsets[b].outputs # {}
  /\ \A m, n \in Selected(b, on_sets) : Len(Files(b, m)) = Len(Files(b, n))

\* C16: partitioning a BuildSet whose selected groups do not all have the same
\* number of files, or whose selection holds no input group or no output
\* group, fails with a partition error and yields no BuildSet.
C16_BadPartitionFails ==
  part # <<>> =>
    LET p == part[1] IN
      ~Partitionable(p.source, p.on_sets) =>
        /\ p.error \in {"cardinality_must_match", "no_inputs_or_outputs"}
        /\ p.results = <<>>
        /\ Len(bsets) = p.nbefore
        /\ p.was_live => p.source \in Members(live)

\* A partition over groups of 1 and 2 files has failed.
C16_Witness ==
  /\ part # <<>>
  /\ part[1].error = "cardinality_must_match"
  /\ \E m, n \in Selected(part[1].source, part[1].on_sets) :
       Len(Files(part[1].source, m)) = 1 /\ Len(Files(part[1].source, n)) = 2

C18_PartitionJoinRoundTrip ==
  joined # <<>> =>
    LET p == part[1]
        j == joined[1]
    IN (j.name \in Selected(p.source, p.on_sets) /\ Len(p.results) >= 1) =>
         /\ file_sets[j.set] = Files(p.source, j.name)
         /\ Len(j.sets) = 1 => j.set = j.sets[1]

\* The group "in" = [b, a] was partitioned in two and joined again.
C18_Witness ==
  /\ joined # <<>>
  /\ joined[1].name = "in"
  /\ Len(part[1].results) = 2
  /\ file_sets[joined[1].set] =
       <<[name |-> "b", abs |-> TRUE], [name |-> "a", abs |-> TRUE]>>

\* C19: after a successful partition with fizzle=True the source BuildSet is
\* not in the session's list of build sets and is linked to no Operator,
\* each result is in the list, and the Operator of create_operator(for_each)
\* owns exactly the results; with fizzle=False the source stays listed and
\* linked as it was.
C19_FizzleSupersedesSource ==
  (part # <<>> /\ part[1].error = "none") =>
    LET p == part[1] IN
      /\ IF p.fizzle
           THEN /\ p.source \notin Members(live)
                /\ bsets[p.source].operator = NoOperator
                /\ \A o \in 1..Len(op_sets) : p.source \notin Members(op_sets[o])
           ELSE /\ p.was_live => p.source \in Members(live)
                /\ bsets[p.source].operator = p.operator_before
                /\ p.operator_before # NoOperator =>
                     p.source \in Members(op_sets[p.operator_before])
      /\ \A i \in 1..Len(p.results) : p.results[i] \in Members(live)
      /\ p.owner # NoOperator =>
           /\ op_sets[p.owner] = p.results
           /\ \A i \in 1..Len(p.results) : bsets[p.results[i]].operator = p.owner

\* create_operator(for_each=True) has partitioned in two a build set that
\* was linked to an earlier Operator.
C19_Witness ==
  /\ part # <<>>
  /\ part[1].error = "none"
  /\ part[1].fizzle
  /\ part[1].operator_before # NoOperator
  /\ part[1].owner # NoOperator
  /\ Len(part[1].results) = 2

(***************************************************************************)
(* Claims about ActionData.new                                             *)
(***************************************************************************)
\* The leaf actions of the targets of every private dependency and every
\* transitive public dependency of the target.
LeafActionsOfDependencies ==
  UNION {leaf_actions[d] : d \in private_deps \cup transitive_deps}

NumSentinels(l) == Cardinality({i \in 1..Len(l) : l[i] \in Sentinels})

C28_IsAbortedNeverBlocks ==
  poll_pc = "is_aborted_L227" => lock # "system"

\* C29: the payload of an Action runs at most once: two threads that called
\* execute() on the same Action, with the same ActionProgress set on it, are
\* never both running its payload.
C29_PayloadRunsAtMostOnce ==
  \A t, u \in Threads :
    (t # u /\ RunningPayload(t) /\ RunningPayload(u) /\ self[t] = self[u])
      => lprogress[t] # lprogress[u]

\* The callbacks registered after the abort() that set the flag.
RegisteredAfterAbort == (registered_when_aborted + 1)..Len(abort_callbacks)

\* C30: once abort() has been called, a callback registered with on_abort()
\* afterwards is never invoked; so the child of a system() call made on an
\* aborted progress is never asked to terminate and system() returns only
\* when the child has exited; and when an abort() call has returned, every
\* callback registered behind a raising one before the call has been invoked.
C30_LateCallbacksNeverInvoked ==
  /\ aborted => \A i \in RegisteredAfterAbort : invoked[i] = 0
  /\ (aborted /\ \A i \in 1..registered_when_aborted : abort_callbacks[i] # "terminate")
       => ~terminate_requested
  /\ system_pc = "returned" => proc = "exited"
  /\ \A t \in Aborters :
       abort_pc[t] = "returned" =>
         \A i, j \in 1..registered_when_aborted :
           (i < j /\ abort_callbacks[i] = "raising") => invoked[j] = 1

\* abort() ran over a raising callback followed by a plain one, then system()
\* was called on the aborted progress, registered its terminate callback and
\* returned after its child exited, without the callback being invoked.
C30_Witness ==
  /\ aborted
  /\ abort_callbacks = <<"raising", "plain", "terminate">>
  /\ registered_when_aborted = 2
  /\ invoked = <<1, 1, 0>>
  /\ system_pc = "returned"
  /\ ~terminate_requested
  /\ \E t \in Aborters : abort_pc[t] = "returned"

(***************************************************************************)
(* Claims about System.is_skippable                                        *)
(***************************************************************************)
Inputs == Members(payload[1].input_files)
Outputs == Members(payload[1].output_files)

\* The payload declares inputs and outputs, all of them exist in fs, and
\* every output is strictly newer than every input.
OutputsNewer(fs) ==
  /\ Inputs # {} /\ Outputs # {}
  /\ \A f \in Inputs \cup Outputs : exists(fs, f)
  /\ \A i \in Inputs, o \in Outputs : fs[i] < fs[o]

\* C21: with non-empty input and output lists whose files all exist and every
\* output strictly newer than every input, is_skippable() answers True; and
\* after one input of such a payload is touched to an mtime greater than the
\* outputs', is_skippable() answers False.
C21_NewerOutputsSkippable ==
  skippable # <<>> =>
    /\ OutputsNewer(mtime) => skippable[1]
    /\ (/\ touched # <<>>
        /\ touched[1].file \in Inputs
        /\ OutputsNewer([mtime EXCEPT ![touched[1].file] = touched[1].old])
        /\ \A o \in Outputs : mtime[touched[1].file] > mtime[o])
         => (touched[1].was /\ ~skippable[1])

\* Two inputs and two outputs, all outputs newer; is_skippable() answered True,
\* then the second input was touched to a time after the outputs and
\* is_skippable() was asked again.
C21_Witness ==
  /\ skippable = <<FALSE>>
  /\ payload = <<[input_files |-> InputFiles, output_files |-> OutputFiles]>>
  /\ touched = <<[file |-> "i2", old |-> 1, was |-> TRUE]>>
  /\ mtime = [f \in AllFiles |-> IF f = "i1" THEN 1 ELSE IF f = "i2" THEN 3 ELSE 2]

\* C27 as stated: is_skippable() answers True exactly when every declared
\* input is strictly older than every declared output that exists and at
\* least one declared output exists (read for payloads whose inputs exist).
C27_SkippableIffOneOutputNewer ==
  (skippable # <<>> /\ \A i \in Inputs : exists(mtime, i)) =>
    (skippable[1] <=>
       /\ \E o \in Outputs : exists(mtime, o)
       /\ \A i \in Inputs, o \in Outputs : exists(mtime, o) => mtime[i] < mtime[o])

\* The time an input counts as modified at: a missing one, 1000 seconds
\* after the time of the check.
ModifiedAt(i) == IF exists(mtime, i) THEN mtime[i] ELSE time_time + 1000

\* C27, amended: is_skippable() answers True exactly when at least one output
\* is declared, every declared output exists, and every declared input is
\* strictly older than every declared output, a missing input counting as
\* modified 1000 seconds after the time of the check.
C27_SkippableIffAllOutputsNewer ==
  skippable # <<>> =>
    (skippable[1] <=>
       /\ Outputs # {}
       /\ \A o \in Outputs : exists(mtime, o)
       /\ \A i \in Inputs, o \in Outputs : ModifiedAt(i) < mtime[o])

\* One input, two outputs of which the second is missing and the first is
\* newer than the input: is_skippable() answered False.
C27_Witness ==
  /\ skippable = <<FALSE>>
  /\ payload = <<[input_files |-> <<"i1">>, output_files |-> OutputFiles]>>
  /\ mtime["i1"] = 1 /\ mtime["o1"] = 2 /\ mtime["o2"] = Missing

(***************************************************************************)
(* Claims about the ninja backend                                          *)
(***************************************************************************)
NodeKeys == 1..Len(graph)

\* C22: exporting the same graph twice writes the same document, whatever
\* the order in which the container hands out the nodes, also when two nodes
\* have the same name; and two nodes with the same sanitized name and the
\* same content hash get the same synthetic name.
C22_ExportIsDeterministic ==
  /\ \A i, j \in 1..Len(documents) : documents[i] = documents[j]
  /\ \A x, y \in NodeKeys :
       (re_sub(graph[x].name) = re_sub(graph[y].name) /\ hash(graph, x) = hash(graph, y))
         => make_rule_name(graph, x) = make_rule_name(graph, y)

\* C23: in every document written, a node without output files is built
\* under its phony name alone, and each of its edges to a dependency is an
\* order-only edge on the dependency's phony name if the dependency has no
\* output files, and is on the dependency's output files, not on its phony
\* name, if it has some.
C23_EdgesOnOutputFiles ==
  \A d \in 1..Len(documents) : \A k \in 1..Len(exported[d]) :
    LET x == exported[d][k]
        st == documents[d].statements[k].build
    IN /\ graph[x].output_files = <<>> => st.outputs = <<make_rule_name(graph, x)>>
       /\ \A i \in 1..Len(graph[x].deps) :
            LET dep == graph[x].deps[i] IN
              IF graph[dep].output_files = <<>>
                THEN make_rule_name(graph, dep) \in Members(st.order_only)
                ELSE /\ Members(graph[dep].output_files)
                          \subseteq Members(st.inputs) \cup Members(st.order_only)
                     /\ make_rule_name(graph, dep) \notin Members(st.order_only)

\* What one statement of a document produces and what it needs.
Produced(s) ==
  Members(s.build.outputs) \cup (IF s.phony # <<>> THEN Members(s.phony[1].outputs) ELSE {})
Needed(s) ==
  Members(s.build.inputs) \cup Members(s.build.order_only)
    \cup (IF s.phony # <<>> THEN Members(s.phony[1].inputs) ELSE {})

\* The targets the executor builds when it is given none: those of the
\* default statement, and without one every output no statement needs.
BuiltByDefault(doc) ==
  IF doc.default # <<>> THEN Members(doc.default[1])
  ELSE UNION {Produced(doc.statements[k]) : k \in 1..Len(doc.statements)}
         \ UNION {Needed(doc.statements[k]) : k \in 1..Len(doc.statements)}

\* C24: in every document written the phony name of each non-explicit node
\* is built by default and nothing an explicit node produces is, also when
\* every node is explicit.
C24_DefaultIsNonExplicit ==
  \A d \in 1..Len(documents) : \A k \in 1..Len(exported[d]) :
    LET x == exported[d][k] IN
      IF graph[x].explicit
        THEN Produced(documents[d].statements[k]) \cap BuiltByDefault(documents[d]) = {}
        ELSE make_rule_name(graph, x) \in BuiltByDefault(documents[d])

RECURSIVE TotalMtime(_)
TotalMtime(F) ==
  IF F = {} THEN 0
  ELSE LET f == CHOOSE x \in F : TRUE IN imtime[f] + TotalMtime(F \ {f})

\* The module's recorded files give another sum now than the one persisted;
\* a recorded file that is gone gives no sum and counts as another one.
SumDiffers(m) ==
  LET F == Members(cachefile.modules[m].deps) IN
    (\A f \in F : imtime[f] # Missing) => TotalMtime(F) # cachefile.modules[m].mtime

\* C26: after an export that succeeded, the mtime persisted for each module
\* run is the sum of the mtimes of its dependent files; a build or clean
\* command that reads a cache record names in its note exactly the modules
\* whose recomputed sum differs from the persisted one, and launches the
\* executor whether or not it names any.
C26_ChangedIffSumDiffers ==
  ran # <<>> =>
    /\ (ran[1].mode = "export" /\ ran[1].returned = <<>> /\ ran[1].raised = "none") =>
         /\ "main" \in DOMAIN cachefile.modules
         /\ \A m \in DOMAIN cachefile.modules :
              /\ cachefile.modules[m].deps = dependent_files[m]
              /\ cachefile.modules[m].mtime = TotalMtime(Members(dependent_files[m]))
    /\ (ran[1].mode \in {"build", "clean"} /\ ran[1].read /\ cachefile.filled) =>
         /\ ran[1].note = {m \in DOMAIN cachefile.modules : SumDiffers(m)}
         /\ ran[1].launched
         /\ ran[1].returned # <<>>

\* A build after an edit of the main module's script: the note names main
\* and not lib, and the executor was launched.
C26_Witness ==
  /\ ran # <<>>
  /\ ran[1].mode = "build"
  /\ DOMAIN cachefile.modules = ModuleNames
  /\ ran[1].note = {"main"}
  /\ ran[1].launched
  /\ \A f \in DependentFiles : imtime[f] # Missing

====
